---------------------------- MODULE Spec2Model ----------------------------
(***************************************************************************)
(* Options-strategy payoff engine of options-analyzer: the leg payoff      *)
(* evaluator, the curve sampler, the six closed-form strategy calculators  *)
(* (strategyCalculator), the tRPC procedures calculateStrategy and         *)
(* generatePLCurve (optionsRouter.ts) and POST /options/calculate          *)
(* (restApi.ts).                                                           *)
(*                                                                         *)
(* A JavaScript number is a record [k, n, d]:                              *)
(*   k = "num"   the finite value n/d, in lowest terms, d > 0 (exact)      *)
(*   k = "inf"   Infinity (n = 1) or -Infinity (n = -1)                    *)
(*   k = "nan"   NaN                                                       *)
(*   k = "undef" undefined (an absent optional field)                      *)
(*   k = "null"  JSON null                                                 *)
(* Finite arithmetic is exact; the sign of zero is not tracked.  The       *)
(* binary64 rounding of the curve sampler's loop is modelled separately,   *)
(* bit for bit, by the F-operators and the specification SpecF.            *)
(***************************************************************************)
EXTENDS Integers, Sequences, FiniteSets, TLC

VARIABLES
    pc,       \* "idle", or "curve" while generatePLCurve's loop runs
    op,       \* the operation of the current (or last finished) call
    inp,      \* its scalar inputs, a record of JavaScript values
    legs,     \* its option legs, a sequence of OptionLeg records
    status,   \* "none", "running", "ok", "BAD_REQUEST" (validation error), "400", "500"
    value,    \* the value a function returned (a number, a ProbabilityResult); previousPL of a scan
    metrics,  \* the StrategyMetrics a calculator or a handler returned
    price,    \* generatePLCurve: the loop variable
    points,   \* the points generatePLCurve, or the prices findBreakEvenPoints, pushed so far
    page,                   \* the React state of the StrategyAnalyzer page and its stockData
    polygonClientInstance,  \* polygonClient.ts: the singleton, null or a PolygonClient
    constructed,            \* every PolygonClient constructed in the process, in order
    held,                   \* what each caller of getPolygonClient last got: a client or "throws"
    db,                     \* the drizzle instance _db of the process: null, or "connected"
    savedStrategies,        \* the rows of the saved_strategies table, [id, userId]
    nextId,                 \* the table's identity sequence
    requests                \* per user: the saveStrategy or deleteStrategy call in progress

\* the payoff engine and its interfaces
engineVars == <<pc, op, inp, legs, status, value, metrics, price, points>>

\* the page, the market-data client and the database
hostVars == <<page, polygonClientInstance, constructed, held, db, savedStrategies, nextId, requests>>

vars == <<pc, op, inp, legs, status, value, metrics, price, points,
          page, polygonClientInstance, constructed, held, db, savedStrategies, nextId, requests>>

----------------------------------------------------------------------------
(* JavaScript numbers, exact *)

Abs(i) == IF i < 0 THEN -i ELSE i

RECURSIVE GCD(_, _)
GCD(a, b) == IF b = 0 THEN a ELSE GCD(b, a % b)

LCM(a, b) == (a \div GCD(a, b)) * b

Rat(n, d) ==
    LET g == GCD(Abs(n), Abs(d))
        s == IF d < 0 THEN -1 ELSE 1
    IN  [k |-> "num", n |-> s * (n \div g), d |-> s * (d \div g)]

Num(i) == [k |-> "num", n |-> i, d |-> 1]
NaN == [k |-> "nan", n |-> 0, d |-> 1]
Infinity == [k |-> "inf", n |-> 1, d |-> 1]
NegInfinity == [k |-> "inf", n |-> -1, d |-> 1]
undefined == [k |-> "undef", n |-> 0, d |-> 1]
null == [k |-> "null", n |-> 0, d |-> 1]
Zero == Num(0)
Hundred == Num(100)

IsNum(a) == a.k = "num"
IsInf(a) == a.k = "inf"
\* ToNumber(undefined) is NaN: an arithmetic operator sees both as NaN
IsNaN(a) == a.k \in {"nan", "undef"}
Sign(a) == IF a.n > 0 THEN 1 ELSE IF a.n < 0 THEN -1 ELSE 0
SignedInf(s) == IF s > 0 THEN Infinity ELSE NegInfinity

JNeg(a) ==
    IF IsNaN(a) THEN NaN
    ELSE IF IsInf(a) THEN SignedInf(-a.n)
    ELSE [k |-> "num", n |-> -a.n, d |-> a.d]

JAdd(a, b) ==
    IF IsNaN(a) \/ IsNaN(b) THEN NaN
    ELSE IF IsInf(a) /\ IsInf(b) THEN (IF a.n = b.n THEN a ELSE NaN)
    ELSE IF IsInf(a) THEN a
    ELSE IF IsInf(b) THEN b
    ELSE LET l == LCM(a.d, b.d)
         IN  Rat(a.n * (l \div a.d) + b.n * (l \div b.d), l)

JSub(a, b) == JAdd(a, JNeg(b))

JMul(a, b) ==
    IF IsNaN(a) \/ IsNaN(b) THEN NaN
    ELSE IF IsInf(a) \/ IsInf(b)
         THEN (IF Sign(a) * Sign(b) = 0 THEN NaN ELSE SignedInf(Sign(a) * Sign(b)))
    ELSE LET g1 == GCD(Abs(a.n), b.d)
             g2 == GCD(Abs(b.n), a.d)
         IN  Rat((a.n \div g1) * (b.n \div g2), (a.d \div g2) * (b.d \div g1))

JDiv(a, b) ==
    IF IsNaN(a) \/ IsNaN(b) THEN NaN
    ELSE IF IsInf(a) /\ IsInf(b) THEN NaN
    ELSE IF IsInf(a) THEN SignedInf(IF Sign(b) < 0 THEN -a.n ELSE a.n)
    ELSE IF IsInf(b) THEN Num(0)
    ELSE IF b.n = 0 THEN (IF a.n = 0 THEN NaN ELSE SignedInf(Sign(a)))
    ELSE JMul(a, Rat(b.d, b.n))

\* a < b; every comparison with NaN is false
JLt(a, b) ==
    IF IsNaN(a) \/ IsNaN(b) THEN FALSE
    ELSE IF IsInf(a) THEN a.n < 0 /\ ~(IsInf(b) /\ b.n < 0)
    ELSE IF IsInf(b) THEN b.n > 0
    ELSE LET l == LCM(a.d, b.d)
         IN  a.n * (l \div a.d) < b.n * (l \div b.d)

JEq(a, b) == ~IsNaN(a) /\ ~IsNaN(b) /\ a = b
JLe(a, b) == JLt(a, b) \/ JEq(a, b)
JGt(a, b) == JLt(b, a)
JGe(a, b) == JLe(b, a)

\* Math.max, Math.min of two numbers
MathMax(a, b) == IF IsNaN(a) \/ IsNaN(b) THEN NaN ELSE IF JLt(a, b) THEN b ELSE a
MathMin(a, b) == IF IsNaN(a) \/ IsNaN(b) THEN NaN ELSE IF JLt(b, a) THEN b ELSE a
MathAbs(a) == IF IsNaN(a) THEN NaN ELSE IF JLt(a, Num(0)) THEN JNeg(a) ELSE a

\* Math.round: the nearest integer, a half rounded up
MathRound(a) == IF IsNum(a) THEN Num((2 * a.n + a.d) \div (2 * a.d)) ELSE IF IsNaN(a) THEN NaN ELSE a

\* Math.round(x * 100) / 100
RoundCents(a) == JDiv(MathRound(JMul(a, Num(100))), Num(100))

\* a value is truthy unless it is undefined, null, NaN or 0
Truthy(a) == ~(a.k \in {"undef", "null", "nan"}) /\ ~(IsNum(a) /\ a.n = 0)

\* a default parameter value (quantity = 1, range = 0.5), z.number().default(v)
Default(a, v) == IF a.k = "undef" THEN v ELSE a

----------------------------------------------------------------------------
(* strategyCalculator: the leg payoff evaluator *)

Leg(t, pos, K, p, q, spc) ==
    [type |-> t, position |-> pos, strikePrice |-> K, premium |-> p, quantity |-> q, sharesPerContract |-> spc]

calculateLegPL_NoFloor(leg, stockPrice) ==
    LET totalShares == JMul(leg.quantity, leg.sharesPerContract)
        intrinsicValue ==
            IF leg.type = "call" THEN JSub(stockPrice, leg.strikePrice)
            ELSE JSub(leg.strikePrice, stockPrice)
    IN  IF leg.position = "long" THEN JMul(JSub(intrinsicValue, leg.premium), totalShares)
        ELSE JMul(JSub(leg.premium, intrinsicValue), totalShares)

calculateLegPL(leg, stockPrice) ==
    LET totalShares == JMul(leg.quantity, leg.sharesPerContract)
        intrinsicValue ==
            IF leg.type = "call" THEN MathMax(Num(0), JSub(stockPrice, leg.strikePrice))
            ELSE MathMax(Num(0), JSub(leg.strikePrice, stockPrice))
    IN  IF leg.position = "long" THEN JMul(JSub(intrinsicValue, leg.premium), totalShares)
        ELSE JMul(JSub(leg.premium, intrinsicValue), totalShares)

\* legs.reduce((total, leg) => total + calculateLegPL(leg, stockPrice), 0)
RECURSIVE ReducePL(_, _, _)
ReducePL(ls, stockPrice, total) ==
    IF ls = <<>> THEN total
    ELSE ReducePL(Tail(ls), stockPrice, JAdd(total, calculateLegPL(Head(ls), stockPrice)))

calculateStrategyPL(ls, stockPrice) == ReducePL(ls, stockPrice, Num(0))

----------------------------------------------------------------------------
(* strategyCalculator: the six closed-form calculators *)

SharesPerContract == 100

Metrics(nc, mp, ml, be, ror) ==
    [netCost |-> nc, maxProfit |-> mp, maxLoss |-> ml, breakEvenPoints |-> be,
     profitProbability |-> undefined, returnOnRisk |-> ror]

NoMetrics == Metrics(undefined, undefined, undefined, <<>>, undefined)

\* premium * quantity * 100
Times100(premium, quantity) == JMul(JMul(premium, quantity), Num(SharesPerContract))

calculateLongCall(strikePrice, premium, qty, currentPrice) ==
    LET quantity == Default(qty, Num(1))
        netCost == Times100(premium, quantity)
        maxLoss == netCost
        maxProfit == Infinity
        breakEvenPoints == <<JAdd(strikePrice, premium)>>
    IN  Metrics(netCost, maxProfit, maxLoss, breakEvenPoints, undefined)

calculateLongPut_NoPremium(strikePrice, premium, qty, currentPrice) ==
    LET quantity == Default(qty, Num(1))
        netCost == Times100(premium, quantity)
    IN  Metrics(netCost, Times100(strikePrice, quantity), netCost, <<JSub(strikePrice, premium)>>, undefined)

calculateLongPut(strikePrice, premium, qty, currentPrice) ==
    LET quantity == Default(qty, Num(1))
        netCost == Times100(premium, quantity)
        maxLoss == netCost
        maxProfit == Times100(JSub(strikePrice, premium), quantity)
        breakEvenPoints == <<JSub(strikePrice, premium)>>
    IN  Metrics(netCost, maxProfit, maxLoss, breakEvenPoints, undefined)

calculateShortCall(strikePrice, premium, qty, currentPrice) ==
    LET quantity == Default(qty, Num(1))
        netCost == Times100(JNeg(premium), quantity)
        maxProfit == Times100(premium, quantity)
        maxLoss == Infinity
        breakEvenPoints == <<JAdd(strikePrice, premium)>>
    IN  Metrics(netCost, maxProfit, maxLoss, breakEvenPoints, undefined)

calculateShortPut(strikePrice, premium, qty, currentPrice) ==
    LET quantity == Default(qty, Num(1))
        netCost == Times100(JNeg(premium), quantity)
        maxProfit == Times100(premium, quantity)
        maxLoss == Times100(JSub(strikePrice, premium), quantity)
        breakEvenPoints == <<JSub(strikePrice, premium)>>
    IN  Metrics(netCost, maxProfit, maxLoss, breakEvenPoints, undefined)

calculateBullPutSpread_WidthOnly(shortPutStrike, shortPutPremium, longPutStrike, longPutPremium, qty, currentPrice) ==
    LET quantity == Default(qty, Num(1))
        netCredit == Times100(JSub(shortPutPremium, longPutPremium), quantity)
        maxLoss == Times100(JSub(shortPutStrike, longPutStrike), quantity)
    IN  Metrics(JNeg(netCredit), netCredit, maxLoss,
                <<JSub(shortPutStrike, JSub(shortPutPremium, longPutPremium))>>,
                JMul(JDiv(netCredit, MathAbs(maxLoss)), Num(100)))

calculateBullPutSpread(shortPutStrike, shortPutPremium, longPutStrike, longPutPremium, qty, currentPrice) ==
    LET quantity == Default(qty, Num(1))
        netCredit == Times100(JSub(shortPutPremium, longPutPremium), quantity)
        maxProfit == netCredit
        maxLoss == JSub(Times100(JSub(shortPutStrike, longPutStrike), quantity), netCredit)
        breakEvenPoints == <<JSub(shortPutStrike, JSub(shortPutPremium, longPutPremium))>>
        returnOnRisk == JMul(JDiv(maxProfit, MathAbs(maxLoss)), Num(100))
    IN  Metrics(JNeg(netCredit), maxProfit, maxLoss, breakEvenPoints, returnOnRisk)

calculateBearCallSpread_BreakEvenBelow(shortCallStrike, shortCallPremium, longCallStrike, longCallPremium, qty, currentPrice) ==
    LET quantity == Default(qty, Num(1))
        netCredit == Times100(JSub(shortCallPremium, longCallPremium), quantity)
        maxLoss == JSub(Times100(JSub(longCallStrike, shortCallStrike), quantity), netCredit)
    IN  Metrics(JNeg(netCredit), netCredit, maxLoss,
                <<JSub(shortCallStrike, JSub(shortCallPremium, longCallPremium))>>,
                JMul(JDiv(netCredit, MathAbs(maxLoss)), Num(100)))

calculateBearCallSpread(shortCallStrike, shortCallPremium, longCallStrike, longCallPremium, qty, currentPrice) ==
    LET quantity == Default(qty, Num(1))
        netCredit == Times100(JSub(shortCallPremium, longCallPremium), quantity)
        maxProfit == netCredit
        maxLoss == JSub(Times100(JSub(longCallStrike, shortCallStrike), quantity), netCredit)
        breakEvenPoints == <<JAdd(shortCallStrike, JSub(shortCallPremium, longCallPremium))>>
        returnOnRisk == JMul(JDiv(maxProfit, MathAbs(maxLoss)), Num(100))
    IN  Metrics(JNeg(netCredit), maxProfit, maxLoss, breakEvenPoints, returnOnRisk)

----------------------------------------------------------------------------
(* strategyCalculator: calculateProfitProbability (the z-score estimate the   *)
(* request path uses).  Math.log, Math.sqrt and Math.exp have no exact value: *)
(* a result that depends on them is the symbolic percentage                   *)
(* [k |-> "pct", n |-> s]: some number in [50, 100] when s = 1 (the CDF's     *)
(* argument is positive), some number in [0, 50] when s = -1.                 *)

Pct(s) == [k |-> "pct", n |-> s, d |-> 1]

DaysPerYear == 365

\* the sign of Math.log(x), or its special value
LogSign(x) ==
    IF IsNaN(x) THEN NaN
    ELSE IF IsInf(x) THEN (IF x.n > 0 THEN Infinity ELSE NaN)
    ELSE IF x.n < 0 THEN NaN
    ELSE IF x.n = 0 THEN NegInfinity
    ELSE Num(IF x.n > x.d THEN 1 ELSE IF x.n < x.d THEN -1 ELSE 0)

\* standardNormalCDF(x) * 100 rounded to two decimals, x given by its sign
standardNormalCDF(x) ==
    IF IsNaN(x) THEN NaN
    ELSE IF IsInf(x) THEN (IF x.n > 0 THEN Num(100) ELSE Num(0))
    ELSE IF x.n = 0 THEN Num(50)
    ELSE Pct(Sign(x))

calculateProfitProbability(currentPrice, breakEvenPrice, impliedVolatility, daysToExpiration) ==
    IF JLe(impliedVolatility, Num(0)) \/ JLe(daysToExpiration, Num(0)) THEN Num(50)
    ELSE LET timeToExpiration == JDiv(daysToExpiration, Num(DaysPerYear))
             \* volatility = impliedVolatility * Math.sqrt(timeToExpiration): NaN or positive
             volatilityIsNaN == IsNaN(impliedVolatility) \/ IsNaN(timeToExpiration)
             logReturn == LogSign(JDiv(breakEvenPrice, currentPrice))
             zScore == IF volatilityIsNaN THEN NaN ELSE logReturn
         IN  standardNormalCDF(JNeg(zScore))

----------------------------------------------------------------------------
(* optionsRouter.ts: the calculateStrategy procedure *)

StrategyTypes ==
    {"long_call", "long_put", "short_call", "short_put", "bull_put_spread", "bear_call_spread"}
SingleLegTypes == {"long_call", "long_put", "short_call", "short_put"}
SpreadTypes == {"bull_put_spread", "bear_call_spread"}

NoInput ==
    [strategyType |-> "", currentPrice |-> undefined, strikePrice |-> undefined,
     premium |-> undefined, quantity |-> undefined, shortStrike |-> undefined,
     shortPremium |-> undefined, longStrike |-> undefined, longPremium |-> undefined,
     impliedVolatility |-> undefined, daysToExpiration |-> undefined,
     range |-> undefined, stockPrice |-> undefined, legsGiven |-> FALSE,
     riskFreeRate |-> undefined, breakEvenPrice |-> undefined, optionType |-> ""]

\* the switch of calculateStrategy: input.strikePrice! and the like pass an absent field on as undefined
SwitchStrategy(i) ==
    CASE i.strategyType = "long_call" ->
            calculateLongCall(i.strikePrice, i.premium, i.quantity, i.currentPrice)
      [] i.strategyType = "long_put" ->
            calculateLongPut(i.strikePrice, i.premium, i.quantity, i.currentPrice)
      [] i.strategyType = "short_call" ->
            calculateShortCall(i.strikePrice, i.premium, i.quantity, i.currentPrice)
      [] i.strategyType = "short_put" ->
            calculateShortPut(i.strikePrice, i.premium, i.quantity, i.currentPrice)
      [] i.strategyType = "bull_put_spread" ->
            calculateBullPutSpread(i.shortStrike, i.shortPremium, i.longStrike, i.longPremium, i.quantity, i.currentPrice)
      [] i.strategyType = "bear_call_spread" ->
            calculateBearCallSpread(i.shortStrike, i.shortPremium, i.longStrike, i.longPremium, i.quantity, i.currentPrice)

\* the z.object(...) of calculateStrategy: strategyType is one of the enum, currentPrice is a
\* number; every other field is optional
CalculateStrategyInputValid(i) ==
    /\ i.strategyType \in StrategyTypes
    /\ i.currentPrice.k \in {"num", "inf"}

\* calculateStrategyQuery with the profit probability attached whatever the input holds
calculateStrategyQuery_AlwaysAttaches(i) ==
    LET input == [i EXCEPT !.quantity = Default(i.quantity, Num(1))]
        m == SwitchStrategy(input)
    IN  [m EXCEPT !.profitProbability =
              calculateProfitProbability(input.currentPrice, m.breakEvenPoints[1],
                                         input.impliedVolatility, input.daysToExpiration)]

\* the query of calculateStrategy, after the input was parsed (quantity defaults to 1)
calculateStrategyQuery(i) ==
    LET input == [i EXCEPT !.quantity = Default(i.quantity, Num(1))]
        m == SwitchStrategy(input)
    IN  IF Truthy(input.impliedVolatility) /\ Truthy(input.daysToExpiration) /\ Len(m.breakEvenPoints) > 0
        THEN [m EXCEPT !.profitProbability =
                  calculateProfitProbability(input.currentPrice, m.breakEvenPoints[1],
                                             input.impliedVolatility, input.daysToExpiration)]
        ELSE m

----------------------------------------------------------------------------
(* strategyCalculator: generatePLCurve, one loop iteration per step *)

DefaultRange == Rat(1, 2)
CurveSteps == 100

Point(sp, pl) == [stockPrice |-> sp, profitLoss |-> pl]

minPriceOf(currentPrice, range) == JMul(currentPrice, JSub(Num(1), range))
maxPriceOf(currentPrice, range) == JMul(currentPrice, JAdd(Num(1), range))
stepOf(currentPrice, range) ==
    JDiv(JSub(maxPriceOf(currentPrice, range), minPriceOf(currentPrice, range)), Num(CurveSteps))

\* the range generatePLCurve runs with: its default parameter value when none is passed
RangeOf(i) == Default(i.range, DefaultRange)

\* the loop's condition, price <= maxPrice
LoopCondition == JLe(price, maxPriceOf(inp.currentPrice, RangeOf(inp)))

\* the point the loop's body pushes
CurvePoint(ls, p) == Point(RoundCents(p), RoundCents(calculateStrategyPL(ls, p)))

----------------------------------------------------------------------------
(* restApi.ts: the metrics of POST /options/calculate *)

\* legs.reduce((sum, leg) => sum + (leg.position === 'long' ? cost : -cost), 0)
RECURSIVE ReduceNetCost(_, _)
ReduceNetCost(ls, sum) ==
    IF ls = <<>> THEN sum
    ELSE LET leg == Head(ls)
             cost == JMul(JMul(leg.premium, leg.quantity), leg.sharesPerContract)
         IN  ReduceNetCost(Tail(ls), JAdd(sum, IF leg.position = "long" THEN cost ELSE JNeg(cost)))

ProfitsOf(curve) == {curve[j].profitLoss : j \in 1..Len(curve)}

\* Math.max(...profits): -Infinity for no argument, NaN if one is NaN
MaxOf(curve) ==
    LET profits == ProfitsOf(curve)
    IN  IF profits = {} THEN NegInfinity
        ELSE IF \E x \in profits : IsNaN(x) THEN NaN
        ELSE CHOOSE x \in profits : \A y \in profits : ~JLt(x, y)

\* Math.min(...profits): Infinity for no argument, NaN if one is NaN
MinOf(curve) ==
    LET profits == ProfitsOf(curve)
    IN  IF profits = {} THEN Infinity
        ELSE IF \E x \in profits : IsNaN(x) THEN NaN
        ELSE CHOOSE x \in profits : \A y \in profits : ~JLt(y, x)

\* parseFloat(x.toFixed(2)): two decimals, a half rounded away from zero
ToFixed2(a) ==
    IF ~IsNum(a) THEN a
    ELSE LET m == (2 * Abs(a.n) * 100 + a.d) \div (2 * a.d)
         IN  Rat(Sign(a) * m, 100)

\* the linear interpolation between two adjacent points
Interpolate(prev, curr) ==
    LET ratio == JDiv(MathAbs(prev.profitLoss), JAdd(MathAbs(prev.profitLoss), MathAbs(curr.profitLoss)))
        breakEven == JAdd(prev.stockPrice, JMul(ratio, JSub(curr.stockPrice, prev.stockPrice)))
    IN  ToFixed2(breakEven)

\* the condition of the loop's if, at (1-based) index i >= 2
Crossed(curve, i) ==
    \/ JLt(curve[i - 1].profitLoss, Zero) /\ JGe(curve[i].profitLoss, Zero)
    \/ JGe(curve[i - 1].profitLoss, Zero) /\ JLt(curve[i].profitLoss, Zero)

\* for (let i = 1; i < curve.length; i++) ...: one break-even per index the condition holds at,
\* in the order of the indices
ScanBreakEven(curve) ==
    LET hits == SelectSeq([j \in 1..(Len(curve) - 1) |-> j + 1], LAMBDA i : Crossed(curve, i))
    IN  [j \in 1..Len(hits) |-> Interpolate(curve[hits[j] - 1], curve[hits[j]])]

\* res.json: JSON.stringify writes a non-finite number as null
ToJSON(a) == IF a.k \in {"inf", "nan"} THEN null ELSE a

RestMetrics(ls, curve) ==
    LET netCost == ReduceNetCost(ls, Num(0))
        maxProfit == MaxOf(curve)
        maxLoss == MinOf(curve)
        breakEvenPoints == ScanBreakEven(curve)
    IN  [netCost |-> ToJSON(netCost),
         maxProfit |-> ToJSON(IF maxProfit = Infinity THEN null ELSE maxProfit),
         maxLoss |-> ToJSON(IF maxLoss = NegInfinity THEN null ELSE maxLoss),
         breakEvenPoints |-> [j \in 1..Len(breakEvenPoints) |-> ToJSON(breakEvenPoints[j])],
         profitProbability |-> undefined, returnOnRisk |-> undefined]

----------------------------------------------------------------------------
(* The Black-Scholes probability module: normalCDF, calculateProbability and   *)
(* its wrapper calculateProfitProbability (named calculateProfitProbabilityBS  *)
(* here; the z-score function of strategyCalculator has the same name).        *)
(* Math.sqrt and Math.log are exact where their value is rational; otherwise   *)
(* the value is [k |-> "sym", n |-> its sign, id |-> what it was computed      *)
(* from].  normalCDF(x) for finite x is prob(|x|) when x <= 0 and              *)
(* 1 - prob(|x|) when x > 0, where prob = d * t * (polynomial in t) lies in    *)
(* [0, 0.5) and prob(0) = 0.49999985; it is the symbolic value                 *)
(* [k |-> "cdf", form |-> "p" or "1-p", at |-> |x|].                           *)

Sym(s, id) == [k |-> "sym", n |-> s, d |-> 1, id |-> id]
Cdf(form, at) == [k |-> "cdf", n |-> 0, d |-> 1, form |-> form, at |-> at]

\* the integer square root of n when n is a perfect square, else -1
ISqrt(n) == IF \E r \in 0..n : r * r = n THEN CHOOSE r \in 0..n : r * r = n ELSE -1

SqrtIsExact(a) == IsNum(a) /\ a.n >= 0 /\ ISqrt(a.n) >= 0 /\ ISqrt(a.d) >= 0

\* Math.sqrt
MathSqrt(a) ==
    IF IsInf(a) THEN (IF a.n > 0 THEN Infinity ELSE NaN)
    ELSE IF ~IsNum(a) \/ a.n < 0 THEN NaN
    ELSE IF SqrtIsExact(a) THEN Rat(ISqrt(a.n), ISqrt(a.d))
    ELSE Sym(1, <<"sqrt", a>>)

\* Math.log
MathLog(a) ==
    IF IsNum(a) /\ a.n > 0 /\ a.n # a.d THEN Sym(IF a.n > a.d THEN 1 ELSE -1, <<"log", a>>)
    ELSE LogSign(a)

\* the sign of x + y from the signs of x and y: 2 when they do not decide it
SignOfSum(sx, sy) == IF sx = 0 THEN sy ELSE IF sy = 0 \/ sy = sx THEN sx ELSE 2

\* -x and |x| of a number that may be symbolic
SymNeg(x) == IF x.k = "sym" THEN [x EXCEPT !.n = -x.n] ELSE JNeg(x)
SymAbs(x) == IF x.k = "sym" THEN x.id ELSE MathAbs(x)

normalCDF(x) ==
    IF x.k \in {"nan", "undef"} THEN NaN
    ELSE IF IsInf(x) THEN (IF x.n > 0 THEN Num(1) ELSE Num(0))
    ELSE Cdf(IF x.n > 0 THEN "1-p" ELSE "p", SymAbs(x))

\* 1 - v for a probability v
OneMinus(v) ==
    IF v.k = "cdf" THEN Cdf(IF v.form = "p" THEN "1-p" ELSE IF v.form = "1-p" THEN "1-(1-p)" ELSE "1-(1-(1-p))", v.at)
    ELSE JSub(Num(1), v)

ProbabilityResult(itm, otm, d1, d2) ==
    [probabilityITM |-> itm, probabilityOTM |-> otm, d1 |-> d1, d2 |-> d2]

DefaultRiskFreeRate == Rat(1, 20)

\* T <= 0 || sigma <= 0 || S <= 0 || K <= 0
IsDegenerate(S, K, daysToExpiration, sigma) ==
    \/ JLe(JDiv(daysToExpiration, Num(DaysPerYear)), Zero)
    \/ JLe(sigma, Zero)
    \/ JLe(S, Zero)
    \/ JLe(K, Zero)

\* d1 (plus = 1) and d2 (plus = -1): (log(S / K) + (r +- sigma^2 / 2) * T) / (sigma * sqrtT);
\* d2 is computed as d1 - sigma * sqrtT, which is this value up to rounding
DValue(S, K, T, r, sigma, plus) ==
    LET logSK == MathLog(JDiv(S, K))
        sqrtT == MathSqrt(T)
        halfVar == JDiv(JMul(sigma, sigma), Num(2))
        drift == JMul(IF plus = 1 THEN JAdd(r, halfVar) ELSE JSub(r, halfVar), T)
    IN  IF logSK.k # "sym" /\ sqrtT.k # "sym"
        THEN (IF plus = 1 THEN JDiv(JAdd(logSK, drift), JMul(sigma, sqrtT))
              ELSE JSub(JDiv(JAdd(logSK, JMul(JAdd(r, halfVar), T)), JMul(sigma, sqrtT)), JMul(sigma, sqrtT)))
        ELSE IF IsNaN(logSK) \/ IsNaN(sqrtT) \/ ~IsNum(drift) \/ ~IsNum(sigma) THEN NaN
        ELSE Sym(SignOfSum(IF logSK.k = "sym" THEN logSK.n ELSE Sign(logSK), Sign(drift)),
                 <<IF plus = 1 THEN "d1" ELSE "d2", S, K, T, r, sigma>>)

calculateProbability_NoStrikeCheck(S, K, daysToExpiration, riskFreeRate, sigma, optionType) ==
    LET r == Default(riskFreeRate, DefaultRiskFreeRate)
        T == JDiv(daysToExpiration, Num(DaysPerYear))
        d2 == DValue(S, K, T, r, sigma, -1)
        probabilityITM == IF optionType = "call" THEN normalCDF(d2) ELSE normalCDF(SymNeg(d2))
    IN  IF JLe(T, Zero) \/ JLe(sigma, Zero) \/ JLe(S, Zero)
        THEN ProbabilityResult(Num(0), Num(1), Num(0), Num(0))
        ELSE ProbabilityResult(probabilityITM, OneMinus(probabilityITM), DValue(S, K, T, r, sigma, 1), d2)

calculateProbability_CallUsesMinusD2(S, K, daysToExpiration, riskFreeRate, sigma, optionType) ==
    LET r == Default(riskFreeRate, DefaultRiskFreeRate)
        T == JDiv(daysToExpiration, Num(DaysPerYear))
        d2 == DValue(S, K, T, r, sigma, -1)
        probabilityITM == normalCDF(SymNeg(d2))
    IN  IF IsDegenerate(S, K, daysToExpiration, sigma)
        THEN ProbabilityResult(Num(0), Num(1), Num(0), Num(0))
        ELSE ProbabilityResult(probabilityITM, OneMinus(probabilityITM), DValue(S, K, T, r, sigma, 1), d2)

calculateProbability(S, K, daysToExpiration, riskFreeRate, sigma, optionType) ==
    LET r == Default(riskFreeRate, DefaultRiskFreeRate)
        T == JDiv(daysToExpiration, Num(DaysPerYear))
        d1 == DValue(S, K, T, r, sigma, 1)
        d2 == DValue(S, K, T, r, sigma, -1)
        probabilityITM == IF optionType = "call" THEN normalCDF(d2) ELSE normalCDF(SymNeg(d2))
    IN  IF IsDegenerate(S, K, daysToExpiration, sigma)
        THEN ProbabilityResult(Num(0), Num(1), Num(0), Num(0))
        ELSE ProbabilityResult(probabilityITM, OneMinus(probabilityITM), d1, d2)

\* calculateProfitProbability of the Black-Scholes module: riskFreeRate is not passed on
calculateProfitProbabilityBS(stockPrice, breakEvenPrice, daysToExpiration, impliedVolatility, strategyType, optionType) ==
    LET probResult ==
            calculateProbability(stockPrice, breakEvenPrice, daysToExpiration, undefined, impliedVolatility,
                                 IF strategyType = "long" THEN optionType
                                 ELSE IF optionType = "call" THEN "put" ELSE "call")
    IN  IF strategyType = "long" THEN probResult.probabilityITM ELSE probResult.probabilityOTM

----------------------------------------------------------------------------
(* the inputs the calls are made with *)

MaxQuantity == 2
MaxLegs == 2
MaxPoints == 102

Quantities == {Num(q) : q \in 1..MaxQuantity}
Strikes == {Num(95), Num(100)}
Premiums == {Num(0), Num(1), Num(3), Num(5)}
SinglePremiums == {Rat(5, 2), Num(5)}
CurrentPrices == {Num(98), Num(105)}
TerminalPrices == {Num(0), Num(90), Rat(195, 2), Num(100), Num(110)}
Volatilities == {Num(0), Rat(1, 4)}
Days == {Num(0), Num(30)}
Optional(S) == S \cup {undefined}

\* strike, premium, quantity and contract size of a leg
LegTerms ==
    { <<Num(95), Rat(5, 2), Num(1), Num(SharesPerContract)>>,
      <<Num(100), Rat(5, 2), Num(1), Num(SharesPerContract)>>,
      <<Num(100), Num(5), Num(MaxQuantity), Num(10)>> }

LegChoices ==
    {Leg(t, pos, x[1], x[2], x[3], x[4]) : t \in {"call", "put"}, pos \in {"long", "short"}, x \in LegTerms}

LegLists == UNION {[1..n -> LegChoices] : n \in 0..MaxLegs}

\* the legs of the six canonical strategies (and no leg at all), as a client sends them
CurveLegLists ==
    { <<>>,
      <<Leg("call", "long", Num(100), Num(5), Num(1), Num(100))>>,
      <<Leg("call", "short", Num(100), Num(5), Num(1), Num(100))>>,
      <<Leg("put", "long", Num(100), Num(5), Num(1), Num(100))>>,
      <<Leg("put", "short", Num(100), Num(3), Num(1), Num(100)),
        Leg("put", "long", Num(95), Num(1), Num(1), Num(100))>>,
      <<Leg("call", "short", Num(100), Num(3), Num(1), Num(100)),
        Leg("call", "long", Num(105), Num(1), Num(1), Num(100))>> }

\* the leg lists POST /options/calculate is sent: those above, a short straddle paid for with a
\* far call (its P&L peaks at exactly 0 on the strike), and a short put and a long call whose
\* strike lies between two samples of the curve around 100
RestLegLists ==
    CurveLegLists \cup
    { <<Leg("call", "short", Num(100), Num(2), Num(1), Num(100)),
        Leg("put", "short", Num(100), Num(2), Num(1), Num(100)),
        Leg("call", "long", Num(200), Num(4), Num(1), Num(100))>>,
      <<Leg("put", "short", Num(100), Num(5), Num(1), Num(100))>>,
      <<Leg("call", "long", Rat(199, 2), Rat(3, 10), Num(1), Num(100))>> }

CurvePrices == {Num(-100), Num(0), Num(100), Rat(101, 100)}
CurveRanges == {Rat(3, 10), Num(0), Rat(-1, 2)}

\* the parameters of calculateProbability: at, in and out of the money, a year (T = 1, whose root
\* is exact) and a month to expiration, and each degenerate value
ProbabilityPrices == {Num(100), Num(110), Num(0)}
ProbabilityDays == {Num(365), Num(30), Num(0), Num(-5)}
ProbabilityRates == {undefined, Rat(1, 8), Rat(1, 50)}
ProbabilityVolatilities == {Rat(1, 5), Rat(1, 2), Num(0)}
OptionTypes == {"call", "put"}

\* the sign of the d2 a call computes is known: the call is degenerate, or d2 is exact, or its
\* two terms do not pull in opposite directions
D2Decided(S, K, daysToExpiration, riskFreeRate, sigma) ==
    LET d2 == DValue(S, K, JDiv(daysToExpiration, Num(DaysPerYear)),
                     Default(riskFreeRate, DefaultRiskFreeRate), sigma, -1)
    IN  IsDegenerate(S, K, daysToExpiration, sigma) \/ d2.k # "sym" \/ d2.n \in {-1, 1}

ProbabilityRequests ==
    {[NoInput EXCEPT !.stockPrice = S, !.strikePrice = K, !.daysToExpiration = dte,
                     !.riskFreeRate = r, !.impliedVolatility = iv, !.optionType = ot] :
        S \in ProbabilityPrices, K \in ProbabilityPrices, dte \in ProbabilityDays,
        r \in ProbabilityRates, iv \in ProbabilityVolatilities, ot \in OptionTypes}

\* the parameters of the wrapper: volatility and days are a number, non-positive, or absent
ProfitProbabilityRequests ==
    {[NoInput EXCEPT !.stockPrice = Num(100), !.breakEvenPrice = be, !.daysToExpiration = dte,
                     !.impliedVolatility = iv, !.strategyType = st, !.optionType = ot] :
        be \in {Num(95), Num(105)}, dte \in {Num(365), Num(30), Num(0), undefined},
        iv \in {Rat(1, 2), Num(0), Rat(-1, 4), undefined}, st \in {"long", "short"}, ot \in OptionTypes}

----------------------------------------------------------------------------
(* the state around the payoff engine, as it is when the process and the page start *)

\* a query of the page that has no data
NoData == [found |-> FALSE]

\* the useState initial values of StrategyAnalyzer; no query has data
InitialPage ==
    [ticker |-> "", selectedTicker |-> "", strategyType |-> "long_call", expirationDate |-> "",
     strikePrice |-> "", premium |-> "", shortStrike |-> "", shortPremium |-> "",
     longStrike |-> "", longPremium |-> "", shouldCalculate |-> FALSE,
     stockData |-> NoData, priceCache |-> {}, effect |-> "done"]

\* the functions that call getPolygonClient
PolygonCallers == {"searchTickers", "getStockPrice", "getOptionQuote", "testConnection"}

\* a caller that has not called getPolygonClient yet
NotCalled == [outcome |-> "none", env |-> "unset", client |-> null]

\* the users of the saved strategies
Users == {1, 2}

\* a user with no call in progress
NoRequest == [at |-> "idle", call |-> "none", id |-> 0, db |-> "null", result |-> FALSE]

----------------------------------------------------------------------------
(* the calls *)

Init ==
    /\ pc = "idle"
    /\ op = "none"
    /\ inp = NoInput
    /\ legs = <<>>
    /\ status = "none"
    /\ value = undefined
    /\ metrics = NoMetrics
    /\ price = undefined
    /\ points = <<>>
    /\ page = InitialPage
    /\ polygonClientInstance = null
    /\ constructed = <<>>
    /\ held = [c \in PolygonCallers |-> NotCalled]
    /\ db = "null"
    /\ savedStrategies = {}
    /\ nextId = 1
    /\ requests = [u \in Users |-> NoRequest]

\* a call calculateStrategyPL(legs, stockPrice)
CallStrategyPL ==
    /\ pc = "idle" /\ status = "none"
    /\ \E ls \in LegLists, S \in TerminalPrices :
          /\ op' = "calculateStrategyPL"
          /\ inp' = [NoInput EXCEPT !.stockPrice = S, !.legsGiven = TRUE]
          /\ legs' = ls
          /\ value' = calculateStrategyPL(ls, S)
    /\ status' = "ok"
    /\ metrics' = NoMetrics
    /\ UNCHANGED <<pc, price, points>>
    /\ UNCHANGED hostVars

\* a call of one of the four single-leg calculators, with numbers
CallSingleLeg ==
    /\ pc = "idle" /\ status = "none"
    /\ \E st \in SingleLegTypes, K \in Strikes, p \in SinglePremiums, q \in Quantities, c \in CurrentPrices :
          /\ inp' = [NoInput EXCEPT !.strategyType = st, !.strikePrice = K, !.premium = p,
                                    !.quantity = q, !.currentPrice = c]
          /\ metrics' = SwitchStrategy(inp')
    /\ op' = "calculator"
    /\ status' = "ok"
    /\ legs' = <<>>
    /\ value' = undefined
    /\ UNCHANGED <<pc, price, points>>
    /\ UNCHANGED hostVars

\* a call of one of the two spread calculators, with numbers
CallSpread ==
    /\ pc = "idle" /\ status = "none"
    /\ \E st \in SpreadTypes, sK \in Strikes, lK \in Strikes, sp \in Premiums, lp \in Premiums,
          q \in Quantities, c \in CurrentPrices :
          /\ inp' = [NoInput EXCEPT !.strategyType = st, !.shortStrike = sK, !.shortPremium = sp,
                                    !.longStrike = lK, !.longPremium = lp,
                                    !.quantity = q, !.currentPrice = c]
          /\ metrics' = SwitchStrategy(inp')
    /\ op' = "calculator"
    /\ status' = "ok"
    /\ legs' = <<>>
    /\ value' = undefined
    /\ UNCHANGED <<pc, price, points>>
    /\ UNCHANGED hostVars

\* a call calculateProbability(params); value is the ProbabilityResult it returns
CallProbability ==
    /\ pc = "idle" /\ status = "none"
    /\ \E i \in ProbabilityRequests :
          /\ D2Decided(i.stockPrice, i.strikePrice, i.daysToExpiration, i.riskFreeRate, i.impliedVolatility)
          /\ inp' = i
          /\ value' = calculateProbability(i.stockPrice, i.strikePrice, i.daysToExpiration,
                                           i.riskFreeRate, i.impliedVolatility, i.optionType)
    /\ op' = "calculateProbability"
    /\ status' = "ok"
    /\ legs' = <<>>
    /\ metrics' = NoMetrics
    /\ UNCHANGED <<pc, price, points>>
    /\ UNCHANGED hostVars

\* a call calculateProfitProbability(params) of the Black-Scholes module
CallProfitProbabilityBS ==
    /\ pc = "idle" /\ status = "none"
    /\ \E i \in ProfitProbabilityRequests :
          /\ D2Decided(i.stockPrice, i.breakEvenPrice, i.daysToExpiration, undefined, i.impliedVolatility)
          /\ inp' = i
          /\ value' = calculateProfitProbabilityBS(i.stockPrice, i.breakEvenPrice, i.daysToExpiration,
                                                   i.impliedVolatility, i.strategyType, i.optionType)
    /\ op' = "calculateProfitProbability"
    /\ status' = "ok"
    /\ legs' = <<>>
    /\ metrics' = NoMetrics
    /\ UNCHANGED <<pc, price, points>>
    /\ UNCHANGED hostVars

\* the request inputs of calculateStrategy: a client sends the fields of its strategy type,
\* any of them possibly absent
StrategyRequests ==
    {[NoInput EXCEPT !.strategyType = st, !.currentPrice = c, !.strikePrice = K, !.premium = p,
                     !.quantity = q, !.impliedVolatility = iv, !.daysToExpiration = dte] :
        st \in SingleLegTypes \cup {"iron_condor"}, c \in Optional(CurrentPrices),
        K \in Optional(Strikes), p \in Optional(SinglePremiums), q \in Optional(Quantities),
        iv \in Optional(Volatilities), dte \in Optional(Days)}
    \cup
    {[NoInput EXCEPT !.strategyType = st, !.currentPrice = c, !.shortStrike = sK,
                     !.shortPremium = sp, !.longStrike = lK, !.longPremium = lp,
                     !.quantity = q, !.impliedVolatility = iv, !.daysToExpiration = dte] :
        st \in SpreadTypes, c \in Optional({Num(98)}), sK \in Optional(Strikes), lK \in Optional(Strikes),
        sp \in Optional({Num(3), Num(5)}), lp \in Optional({Num(0), Num(1)}), q \in Optional({Num(1)}),
        iv \in Optional({Rat(1, 4)}), dte \in Optional({Num(30)})}

\* the tRPC procedure calculateStrategy
CalculateStrategy ==
    /\ pc = "idle" /\ status = "none"
    /\ \E i \in StrategyRequests :
          /\ inp' = i
          /\ IF CalculateStrategyInputValid(i)
             THEN status' = "ok" /\ metrics' = calculateStrategyQuery(i)
             ELSE status' = "BAD_REQUEST" /\ metrics' = NoMetrics
    /\ op' = "trpc.calculateStrategy"
    /\ legs' = <<>>
    /\ value' = undefined
    /\ UNCHANGED <<pc, price, points>>
    /\ UNCHANGED hostVars

\* the procedure with generatePLCurve's points array shared between calls instead of local
GeneratePLCurveProcedure_SharedPoints ==
    /\ pc = "idle" /\ status = "none"
    /\ op' = "trpc.generatePLCurve"
    /\ \E ls \in CurveLegLists, given \in BOOLEAN, c \in Optional(CurvePrices), r \in Optional(CurveRanges) :
          /\ inp' = [NoInput EXCEPT !.currentPrice = c, !.range = Default(r, DefaultRange), !.legsGiven = given]
          /\ legs' = IF given THEN ls ELSE <<>>
          /\ IF given /\ c.k = "num"
             THEN /\ pc' = "curve"
                  /\ status' = "running"
                  /\ price' = minPriceOf(c, RangeOf(inp'))
             ELSE /\ pc' = "idle"
                  /\ status' = "BAD_REQUEST"
                  /\ price' = undefined
    /\ points' = points
    /\ value' = undefined
    /\ metrics' = NoMetrics
    /\ UNCHANGED hostVars

\* the tRPC procedure generatePLCurve: the input is parsed, then generatePLCurve starts
GeneratePLCurveProcedure ==
    /\ pc = "idle" /\ status = "none"
    /\ op' = "trpc.generatePLCurve"
    /\ \E ls \in CurveLegLists, given \in BOOLEAN, c \in Optional(CurvePrices), r \in Optional(CurveRanges) :
          /\ inp' = [NoInput EXCEPT !.currentPrice = c, !.range = Default(r, DefaultRange), !.legsGiven = given]
          /\ legs' = IF given THEN ls ELSE <<>>
          /\ IF given /\ c.k = "num"
             THEN /\ pc' = "curve"
                  /\ status' = "running"
                  /\ price' = minPriceOf(c, RangeOf(inp'))
             ELSE /\ pc' = "idle"
                  /\ status' = "BAD_REQUEST"
                  /\ price' = undefined
    /\ points' = <<>>
    /\ value' = undefined
    /\ metrics' = NoMetrics
    /\ UNCHANGED hostVars

\* POST /options/calculate: the body is checked, then generatePLCurve(legs, currentPrice) starts
RestCalculate ==
    /\ pc = "idle" /\ status = "none"
    /\ op' = "rest.calculate"
    /\ \E ls \in RestLegLists, given \in BOOLEAN, c \in Optional(CurvePrices) :
          /\ inp' = [NoInput EXCEPT !.currentPrice = c, !.legsGiven = given]
          /\ legs' = IF given THEN ls ELSE <<>>
          /\ IF ~Truthy(c) \/ ~given
             THEN /\ pc' = "idle"
                  /\ status' = "400"
                  /\ price' = undefined
             ELSE /\ pc' = "curve"
                  /\ status' = "running"
                  /\ price' = minPriceOf(c, RangeOf(inp'))
    /\ points' = <<>>
    /\ value' = undefined
    /\ metrics' = NoMetrics
    /\ UNCHANGED hostVars

\* one iteration of generatePLCurve's loop
CurveStep ==
    /\ pc = "curve"
    /\ LoopCondition
    /\ Len(points) < MaxPoints
    /\ points' = Append(points, CurvePoint(legs, price))
    /\ price' = JAdd(price, stepOf(inp.currentPrice, RangeOf(inp)))
    /\ UNCHANGED <<pc, op, inp, legs, status, value, metrics>>
    /\ UNCHANGED hostVars

\* the loop ends; the procedure returns {curve}, the REST handler answers with curve and metrics
CurveReturn ==
    /\ pc = "curve"
    /\ ~LoopCondition
    /\ pc' = "idle"
    /\ status' = "ok"
    /\ metrics' = IF op = "rest.calculate" THEN RestMetrics(legs, points) ELSE NoMetrics
    /\ UNCHANGED <<op, inp, legs, value, price, points>>
    /\ UNCHANGED hostVars

\* the call is over: nothing of it is kept, the next call starts from the same state
NextCall ==
    /\ pc = "idle" /\ status # "none"
    /\ op' = "none"
    /\ inp' = NoInput
    /\ legs' = <<>>
    /\ status' = "none"
    /\ value' = undefined
    /\ metrics' = NoMetrics
    /\ price' = undefined
    /\ points' = <<>>
    /\ UNCHANGED pc
    /\ UNCHANGED hostVars

Next ==
    \/ CallStrategyPL
    \/ CallSingleLeg
    \/ CallSpread
    \/ CalculateStrategy
    \/ GeneratePLCurveProcedure
    \/ RestCalculate
    \/ CallProbability
    \/ CallProfitProbabilityBS
    \/ CurveStep
    \/ CurveReturn
    \/ NextCall

Spec == Init /\ [][Next]_vars

----------------------------------------------------------------------------
(* the properties the specification states *)

\* the payoff of one leg as the specification states it
StatedIntrinsic(leg, S) ==
    LET diff == IF leg.type = "call" THEN JSub(S, leg.strikePrice) ELSE JSub(leg.strikePrice, S)
    IN  IF JLt(diff, Zero) THEN Zero ELSE diff

StatedPayoff(leg, S) ==
    IF leg.position = "long"
    THEN JMul(JMul(JSub(StatedIntrinsic(leg, S), leg.premium), leg.quantity), leg.sharesPerContract)
    ELSE JMul(JMul(JSub(leg.premium, StatedIntrinsic(leg, S)), leg.quantity), leg.sharesPerContract)

RECURSIVE StatedSum(_, _, _)
StatedSum(ls, S, j) == IF j = 0 THEN Zero ELSE JAdd(StatedSum(ls, S, j - 1), StatedPayoff(ls[j], S))

\* C1: for every leg list and terminal price S >= 0, calculateStrategyPL returns the sum over the
\* legs of (intrinsic - premium) * quantity * sharesPerContract (long) or (premium - intrinsic) *
\* quantity * sharesPerContract (short), intrinsic = max(0, S - K) for a call and max(0, K - S)
\* for a put; 0 for no leg.
C1_PayoffFormula ==
    op = "calculateStrategyPL" =>
        /\ value = StatedSum(legs, inp.stockPrice, Len(legs))
        /\ legs = <<>> => value = Zero

\* C1's case: two legs, the first a long call in the money, the second a short put in the money
C1_Witness ==
    /\ op = "calculateStrategyPL" /\ Len(legs) = 2
    /\ legs[1].type = "call" /\ legs[1].position = "long" /\ JGt(inp.stockPrice, legs[1].strikePrice)
    /\ legs[2].type = "put" /\ legs[2].position = "short" /\ JLt(inp.stockPrice, legs[2].strikePrice)

DirectCall(st) == op = "calculator" /\ status = "ok" /\ inp.strategyType = st

\* p * q * 100 and (K - p) * q * 100 of the table
Dollars(x, q) == JMul(JMul(x, q), Hundred)

\* C2: the four single-leg calculators return the table's values: long call (p*q*100, unbounded,
\* netCost, [K+p]); long put (p*q*100, (K-p)*q*100, netCost, [K-p]); short call (-p*q*100,
\* p*q*100, unbounded, [K+p]); short put (-p*q*100, p*q*100, (K-p)*q*100, [K-p]); one break-even
\* each, whatever currentPrice is.
C2_SingleLegTable ==
    LET K == inp.strikePrice
        p == inp.premium
        q == inp.quantity
    IN  /\ DirectCall("long_call") =>
              /\ metrics.netCost = Dollars(p, q) /\ metrics.maxLoss = metrics.netCost
              /\ metrics.maxProfit = Infinity /\ metrics.breakEvenPoints = <<JAdd(K, p)>>
        /\ DirectCall("long_put") =>
              /\ metrics.netCost = Dollars(p, q) /\ metrics.maxLoss = metrics.netCost
              /\ metrics.maxProfit = Dollars(JSub(K, p), q) /\ metrics.breakEvenPoints = <<JSub(K, p)>>
        /\ DirectCall("short_call") =>
              /\ metrics.netCost = JNeg(Dollars(p, q)) /\ metrics.maxProfit = Dollars(p, q)
              /\ metrics.maxLoss = Infinity /\ metrics.breakEvenPoints = <<JAdd(K, p)>>
        /\ DirectCall("short_put") =>
              /\ metrics.netCost = JNeg(Dollars(p, q)) /\ metrics.maxProfit = Dollars(p, q)
              /\ metrics.maxLoss = Dollars(JSub(K, p), q) /\ metrics.breakEvenPoints = <<JSub(K, p)>>
        /\ (op = "calculator" /\ inp.strategyType \in SingleLegTypes) => Len(metrics.breakEvenPoints) = 1

\* C2's case: a long put of two contracts, strike 95, premium 2.5: maxProfit 18500, break-even 92.5
C2_Witness ==
    /\ DirectCall("long_put") /\ inp.strikePrice = Num(95) /\ inp.premium = Rat(5, 2)
    /\ inp.quantity = Num(2) /\ inp.currentPrice = Num(105)
    /\ metrics.maxProfit = Num(18500) /\ metrics.breakEvenPoints = <<Rat(185, 2)>>

\* maxProfit / |maxLoss| * 100 as JavaScript divides: a quotient when maxLoss is not 0, else
\* Infinity, -Infinity or NaN by the sign of maxProfit
StatedReturnOnRisk(m) ==
    IF m.maxLoss # Zero
    THEN IsNum(m.returnOnRisk) /\ JMul(m.returnOnRisk, MathAbs(m.maxLoss)) = JMul(m.maxProfit, Hundred)
    ELSE m.returnOnRisk = (IF JGt(m.maxProfit, Zero) THEN Infinity
                           ELSE IF JLt(m.maxProfit, Zero) THEN NegInfinity ELSE NaN)

\* C3: calculateBullPutSpread returns netCredit = (shortPrem - longPrem)*q*100, netCost =
\* -netCredit, maxProfit = netCredit, maxLoss = (shortK - longK)*q*100 - netCredit,
\* breakEvenPoints = [shortK - (shortPrem - longPrem)], returnOnRisk = maxProfit/|maxLoss|*100;
\* 100/3/95/1/1 gives -200, 200, 300, [98] and about 66.67.
C3_BullPutSpread ==
    DirectCall("bull_put_spread") =>
        LET netCredit == Dollars(JSub(inp.shortPremium, inp.longPremium), inp.quantity)
        IN  /\ metrics.netCost = JNeg(netCredit)
            /\ metrics.maxProfit = netCredit
            /\ metrics.maxLoss = JSub(Dollars(JSub(inp.shortStrike, inp.longStrike), inp.quantity), netCredit)
            /\ metrics.breakEvenPoints = <<JSub(inp.shortStrike, JSub(inp.shortPremium, inp.longPremium))>>
            /\ StatedReturnOnRisk(metrics)
            /\ (/\ inp.shortStrike = Num(100) /\ inp.shortPremium = Num(3) /\ inp.longStrike = Num(95)
                /\ inp.longPremium = Num(1) /\ inp.quantity = Num(1))
               => /\ metrics.netCost = Num(-200) /\ metrics.maxProfit = Num(200)
                  /\ metrics.maxLoss = Num(300) /\ metrics.breakEvenPoints = <<Num(98)>>
                  /\ RoundCents(metrics.returnOnRisk) = Rat(6667, 100)

\* C3's case: the specification's example 100/3/95/1/1
C3_Witness ==
    /\ DirectCall("bull_put_spread")
    /\ inp.shortStrike = Num(100) /\ inp.shortPremium = Num(3) /\ inp.longStrike = Num(95)
    /\ inp.longPremium = Num(1) /\ inp.quantity = Num(1)
    /\ metrics.returnOnRisk = Rat(200, 3)

\* C4: calculateBearCallSpread returns netCredit = (shortPrem - longPrem)*q*100, netCost =
\* -netCredit, maxProfit = netCredit, maxLoss = (longK - shortK)*q*100 - netCredit,
\* breakEvenPoints = [shortK + (shortPrem - longPrem)], returnOnRisk = maxProfit/|maxLoss|*100.
C4_BearCallSpread ==
    DirectCall("bear_call_spread") =>
        LET netCredit == Dollars(JSub(inp.shortPremium, inp.longPremium), inp.quantity)
        IN  /\ metrics.netCost = JNeg(netCredit)
            /\ metrics.maxProfit = netCredit
            /\ metrics.maxLoss = JSub(Dollars(JSub(inp.longStrike, inp.shortStrike), inp.quantity), netCredit)
            /\ metrics.breakEvenPoints = <<JAdd(inp.shortStrike, JSub(inp.shortPremium, inp.longPremium))>>
            /\ StatedReturnOnRisk(metrics)

\* C4's case: short 95 call at 3, long 100 call at 1, two contracts: credit 400, max loss 600,
\* break-even 97, return on risk 66.67 percent
C4_Witness ==
    /\ DirectCall("bear_call_spread")
    /\ inp.shortStrike = Num(95) /\ inp.shortPremium = Num(3) /\ inp.longStrike = Num(100)
    /\ inp.longPremium = Num(1) /\ inp.quantity = Num(2)
    /\ metrics.maxProfit = Num(400) /\ metrics.maxLoss = Num(600)
    /\ metrics.breakEvenPoints = <<Num(97)>> /\ metrics.returnOnRisk = Rat(200, 3)

\* a curve request: one that reached the tRPC procedure generatePLCurve or POST /options/calculate
CurveRequest == op \in {"trpc.generatePLCurve", "rest.calculate"}
Rejected == pc = "idle" /\ status \in {"BAD_REQUEST", "400"}

\* C6: a curve request with currentPrice <= 0 or range <= 0 is rejected with a validation error
\* and no curve is returned, on every path that reaches generatePLCurve.
C6_DegenerateCurveRejected ==
    (CurveRequest /\ inp.legsGiven /\ (JLe(inp.currentPrice, Zero) \/ JLe(RangeOf(inp), Zero)))
        => Rejected

\* the width of a spread the way its strategy orders the strikes
SpreadWidth(i) ==
    IF i.strategyType = "bull_put_spread" THEN JSub(i.shortStrike, i.longStrike)
    ELSE JSub(i.longStrike, i.shortStrike)

ReturnsMetrics == op \in {"calculator", "trpc.calculateStrategy"} /\ status = "ok"

\* C7: calculateBullPutSpread fails when shortStrike <= longStrike and calculateBearCallSpread
\* fails when shortStrike >= longStrike: no StrategyMetrics of a spread whose width is negative
\* or zero is ever returned.
C7_StrikeOrderValidated ==
    ~(ReturnsMetrics /\ inp.strategyType \in SpreadTypes /\ JLe(SpreadWidth(inp), Zero))

\* C8: when a spread's maxLoss is 0 the calculators do not divide by zero: returnOnRisk is
\* omitted or null, not infinite and not NaN; for every other input it is maxProfit/|maxLoss|*100.
C8_ReturnOnRiskGuarded ==
    (ReturnsMetrics /\ inp.strategyType \in SpreadTypes) =>
        IF metrics.maxLoss = Zero THEN metrics.returnOnRisk \in {undefined, null}
        ELSE IsNaN(metrics.maxLoss) \/ StatedReturnOnRisk(metrics)

\* the fields the strategy type of a request requires
RequiredFields(i) ==
    IF i.strategyType \in SpreadTypes
    THEN {i.shortStrike, i.shortPremium, i.longStrike, i.longPremium}
    ELSE {i.strikePrice, i.premium}

\* C9: calculateStrategy raises a validation error, before any calculator is invoked, whenever a
\* field the selected strategy type requires is missing; it never returns metrics computed from
\* an absent field.
C9_RequiredFieldsValidated ==
    (op = "trpc.calculateStrategy" /\ undefined \in RequiredFields(inp)) => status = "BAD_REQUEST"

LongCallOnly == Len(legs) = 1 /\ legs[1].type = "call" /\ legs[1].position = "long"
ShortCallOnly == Len(legs) = 1 /\ legs[1].type = "call" /\ legs[1].position = "short"

\* C10: an unbounded maxProfit or maxLoss is reported as null at every interface that returns
\* metrics, never as an infinity and never as a finite number: POST /options/calculate returns
\* maxProfit = null for a long call and maxLoss = null for a short call, and the metrics
\* calculateStrategy returns carry no infinite number.
C10_UnboundedIsNull ==
    /\ (op = "rest.calculate" /\ status = "ok" /\ LongCallOnly) => metrics.maxProfit = null
    /\ (op = "rest.calculate" /\ status = "ok" /\ ShortCallOnly) => metrics.maxLoss = null
    /\ (op = "trpc.calculateStrategy" /\ status = "ok") =>
           ~IsInf(metrics.maxProfit) /\ ~IsInf(metrics.maxLoss) /\ ~IsInf(metrics.returnOnRisk)

RestAnswered == op = "rest.calculate" /\ pc = "idle" /\ status = "ok"

\* the P&L of two adjacent samples has opposite signs, or one of the two is zero and the other not
Brackets(curve, i) ==
    \/ JLt(curve[i - 1].profitLoss, Zero) /\ JGe(curve[i].profitLoss, Zero)
    \/ JGt(curve[i - 1].profitLoss, Zero) /\ JLe(curve[i].profitLoss, Zero)
    \/ JEq(curve[i - 1].profitLoss, Zero) /\ ~JEq(curve[i].profitLoss, Zero)

\* the P&L changes sign between two adjacent samples, neither being zero
StrictCrossing(curve, i) ==
    \/ JLt(curve[i - 1].profitLoss, Zero) /\ JGt(curve[i].profitLoss, Zero)
    \/ JGt(curve[i - 1].profitLoss, Zero) /\ JLt(curve[i].profitLoss, Zero)

InBracket(curve, i, b) ==
    IsNum(b) /\ JLe(curve[i - 1].stockPrice, b) /\ JLe(b, curve[i].stockPrice)

\* C21: in the response of POST /options/calculate, breakEvenPoints is a strictly ascending list
\* without duplicates that holds exactly one price for each place where the sampled curve's P&L
\* reaches or crosses zero, each price lying between the two adjacent samples that bracket that
\* zero.
C21_RestBreakEvensAscending ==
    RestAnswered =>
        /\ \A j \in 1..(Len(metrics.breakEvenPoints) - 1) :
              JLt(metrics.breakEvenPoints[j], metrics.breakEvenPoints[j + 1])
        /\ \A j \in 1..Len(metrics.breakEvenPoints) :
              \E i \in 2..Len(points) :
                  Brackets(points, i) /\ InBracket(points, i, metrics.breakEvenPoints[j])
        /\ \A i \in 2..Len(points) :
              StrictCrossing(points, i) =>
                  Cardinality({j \in 1..Len(metrics.breakEvenPoints) :
                                   InBracket(points, i, metrics.breakEvenPoints[j])}) = 1

\* C22: generatePLCurve terminates, after a bounded number of payoff evaluations, for every
\* numeric currentPrice and range that the tRPC generatePLCurve procedure and
\* POST /options/calculate let through, including range = 0, currentPrice = 0 and negative values.
\* A call that was let through leaves its loop once it has evaluated the payoff
\* CurveSteps + 1 times.
C22_CurveTerminates == (pc = "curve" /\ Len(points) > CurveSteps) => ~LoopCondition

\* C25: every point of the curve returned by generatePLCurve is self-consistent: its profitLoss
\* equals calculateStrategyPL(legs, point.stockPrice) rounded to cents, for every currentPrice
\* and range (including ones whose samples do not fall on whole cents).
C25_PointsSelfConsistent ==
    (op \in {"trpc.generatePLCurve", "rest.calculate"} /\ pc = "idle" /\ status = "ok") =>
        \A j \in 1..Len(points) :
            points[j].profitLoss = RoundCents(calculateStrategyPL(legs, points[j].stockPrice))

----------------------------------------------------------------------------
(* binary64.  A natural number is the sequence of its digits in base 2^15, the *)
(* least significant first, without leading zero digits (0 is <<>>).  A double *)
(* is [sg, m, e], the value sg * m * 2^e with m of exactly 53 bits, or m = <<>> *)
(* for 0.  Every operation rounds its exact result to the nearest double, a    *)
(* tie to the even one, as IEEE 754 does; the values of this model stay far   *)
(* from overflow and from the subnormal range.                                *)

LimbBits == 15
Base == 32768
Precision == 53

RECURSIVE Pow2(_)
Pow2(k) == IF k = 0 THEN 1 ELSE 2 * Pow2(k - 1)

Limb(a, i) == IF i <= Len(a) THEN a[i] ELSE 0
MaxInt(x, y) == IF x > y THEN x ELSE y
MinInt(x, y) == IF x < y THEN x ELSE y

RECURSIVE NNorm(_)
NNorm(a) == IF a # <<>> /\ a[Len(a)] = 0 THEN NNorm(SubSeq(a, 1, Len(a) - 1)) ELSE a

RECURSIVE NFromInt(_)
NFromInt(n) == IF n = 0 THEN <<>> ELSE <<n % Base>> \o NFromInt(n \div Base)

RECURSIVE NToInt(_)
NToInt(a) == IF a = <<>> THEN 0 ELSE a[1] + Base * NToInt(Tail(a))

RECURSIVE NAddC(_, _, _, _)
NAddC(a, b, i, c) ==
    IF i > MaxInt(Len(a), Len(b)) THEN (IF c = 0 THEN <<>> ELSE <<c>>)
    ELSE LET t == Limb(a, i) + Limb(b, i) + c
         IN  <<t % Base>> \o NAddC(a, b, i + 1, t \div Base)

NAdd(a, b) == NAddC(a, b, 1, 0)

\* a - b for a >= b
RECURSIVE NSubB(_, _, _, _)
NSubB(a, b, i, c) ==
    IF i > Len(a) THEN <<>>
    ELSE LET t == a[i] - Limb(b, i) - c
         IN  <<t % Base>> \o NSubB(a, b, i + 1, IF t < 0 THEN 1 ELSE 0)

NSub(a, b) == NNorm(NSubB(a, b, 1, 0))

\* -1, 0 or 1 as a < b, a = b or a > b, comparing from digit i down
RECURSIVE NCmpFrom(_, _, _)
NCmpFrom(a, b, i) ==
    IF i = 0 THEN 0
    ELSE IF a[i] < b[i] THEN -1
    ELSE IF a[i] > b[i] THEN 1
    ELSE NCmpFrom(a, b, i - 1)

NCmp(a, b) ==
    IF Len(a) < Len(b) THEN -1 ELSE IF Len(a) > Len(b) THEN 1 ELSE NCmpFrom(a, b, Len(a))

\* a * k for a digit k
RECURSIVE NMulSmallC(_, _, _, _)
NMulSmallC(a, k, i, c) ==
    IF i > Len(a) THEN (IF c = 0 THEN <<>> ELSE <<c>>)
    ELSE LET t == a[i] * k + c
         IN  <<t % Base>> \o NMulSmallC(a, k, i + 1, t \div Base)

NMulSmall(a, k) == IF k = 0 THEN <<>> ELSE NMulSmallC(a, k, 1, 0)

RECURSIVE NMulFrom(_, _, _)
NMulFrom(a, b, j) ==
    IF j > Len(b) THEN <<>>
    ELSE NNorm(NAdd(NMulSmall(a, b[j]), <<0>> \o NMulFrom(a, b, j + 1)))

NMul(a, b) == NMulFrom(a, b, 1)

\* the quotient and the remainder of a by k, 0 < k < 2^15, from digit i down
RECURSIVE NDivSmallFrom(_, _, _, _)
NDivSmallFrom(a, k, i, r) ==
    IF i = 0 THEN [q |-> <<>>, r |-> r]
    ELSE LET cur == r * Base + a[i]
             rest == NDivSmallFrom(a, k, i - 1, cur % k)
         IN  [q |-> rest.q \o <<cur \div k>>, r |-> rest.r]

NDivSmall(a, k) ==
    LET res == NDivSmallFrom(a, k, Len(a), 0)
    IN  [q |-> NNorm(res.q), r |-> res.r]

\* a * 2^bits and floor(a / 2^bits)
NShl(a, bits) ==
    IF a = <<>> THEN <<>>
    ELSE [j \in 1..(bits \div LimbBits) |-> 0] \o NMulSmall(a, Pow2(bits % LimbBits))

NShr(a, bits) ==
    IF bits \div LimbBits >= Len(a) THEN <<>>
    ELSE NDivSmall(SubSeq(a, (bits \div LimbBits) + 1, Len(a)), Pow2(bits % LimbBits)).q

RECURSIVE BitLenInt(_)
BitLenInt(n) == IF n = 0 THEN 0 ELSE 1 + BitLenInt(n \div 2)

NBitLen(a) == IF a = <<>> THEN 0 ELSE LimbBits * (Len(a) - 1) + BitLenInt(a[Len(a)])

FZero == [sg |-> 1, m |-> <<>>, e |-> 0]
FIsZero(x) == x.m = <<>>

\* sg * N * 2^e rounded to 53 bits, to nearest, a tie to even
FRound(sg, N, e) ==
    LET L == NBitLen(N)
    IN  IF L = 0 THEN FZero
        ELSE IF L <= Precision THEN [sg |-> sg, m |-> NShl(N, Precision - L), e |-> e - (Precision - L)]
        ELSE LET sh == L - Precision
                 q == NShr(N, sh)
                 c == NCmp(NSub(N, NShl(q, sh)), NShl(<<1>>, sh - 1))
                 up == c > 0 \/ (c = 0 /\ q[1] % 2 = 1)
                 q2 == IF up THEN NAdd(q, <<1>>) ELSE q
             IN  IF NBitLen(q2) > Precision
                 THEN [sg |-> sg, m |-> NShr(q2, 1), e |-> e + sh + 1]
                 ELSE [sg |-> sg, m |-> q2, e |-> e + sh]

FNeg(x) == IF FIsZero(x) THEN x ELSE [x EXCEPT !.sg = -x.sg]

FAdd(x, y) ==
    IF FIsZero(x) THEN y
    ELSE IF FIsZero(y) THEN x
    ELSE LET emin == MinInt(x.e, y.e)
             X == NShl(x.m, x.e - emin)
             Y == NShl(y.m, y.e - emin)
             c == NCmp(X, Y)
         IN  IF x.sg = y.sg THEN FRound(x.sg, NAdd(X, Y), emin)
             ELSE IF c = 0 THEN FZero
             ELSE IF c > 0 THEN FRound(x.sg, NSub(X, Y), emin)
             ELSE FRound(y.sg, NSub(Y, X), emin)

FSub(x, y) == FAdd(x, FNeg(y))

FMul(x, y) ==
    IF FIsZero(x) \/ FIsZero(y) THEN FZero
    ELSE FRound(x.sg * y.sg, NMul(x.m, y.m), x.e + y.e)

\* x / k for an integer 0 < k < 2^15: the quotient with 30 more bits and a sticky bit, rounded
FDivInt(x, k) ==
    IF FIsZero(x) THEN FZero
    ELSE LET res == NDivSmall(NShl(x.m, 2 * LimbBits), k)
             sticky == IF res.r = 0 THEN <<>> ELSE <<1>>
         IN  FRound(x.sg, NAdd(NMulSmall(res.q, 2), sticky), x.e - 2 * LimbBits - 1)

FFromInt(n) == FRound(IF n < 0 THEN -1 ELSE 1, NFromInt(Abs(n)), 0)

\* the double a decimal literal n/d denotes
ToDouble(a) == FDivInt(FFromInt(a.n), a.d)

\* x <= y, x < y
FSignOf(x) == IF FIsZero(x) THEN 0 ELSE x.sg
FLe(x, y) == FSignOf(FSub(x, y)) <= 0
FLt(x, y) == FSignOf(FSub(x, y)) < 0
FMathMax(x, y) == IF FLt(x, y) THEN y ELSE x

\* Math.round(x) as an integer: the nearest integer, a half rounded up
FMathRound(x) ==
    IF FIsZero(x) THEN 0
    ELSE IF x.e >= 0 THEN x.sg * NToInt(NShl(x.m, x.e))
    ELSE LET q == NShr(x.m, -x.e)
             c == NCmp(NSub(x.m, NShl(q, -x.e)), NShl(<<1>>, -x.e - 1))
         IN  IF x.sg > 0 THEN NToInt(q) + (IF c >= 0 THEN 1 ELSE 0)
             ELSE -(NToInt(q) + (IF c > 0 THEN 1 ELSE 0))

\* Math.round(x * 100) / 100
FRoundCents(x) == FDivInt(FFromInt(FMathRound(FMul(x, FFromInt(100)))), 100)

----------------------------------------------------------------------------
(* strategyCalculator in binary64: generatePLCurve as Node runs it.  The inputs *)
(* are decimal literals (inp and legs hold them exactly); every operation on   *)
(* them is the double operation.                                               *)

calculateLegPLF(leg, stockPrice) ==
    LET totalShares == FMul(ToDouble(leg.quantity), ToDouble(leg.sharesPerContract))
        intrinsicValue ==
            IF leg.type = "call" THEN FMathMax(FZero, FSub(stockPrice, ToDouble(leg.strikePrice)))
            ELSE FMathMax(FZero, FSub(ToDouble(leg.strikePrice), stockPrice))
    IN  IF leg.position = "long" THEN FMul(FSub(intrinsicValue, ToDouble(leg.premium)), totalShares)
        ELSE FMul(FSub(ToDouble(leg.premium), intrinsicValue), totalShares)

RECURSIVE ReducePLF(_, _, _)
ReducePLF(ls, stockPrice, total) ==
    IF ls = <<>> THEN total
    ELSE ReducePLF(Tail(ls), stockPrice, FAdd(total, calculateLegPLF(Head(ls), stockPrice)))

calculateStrategyPLF(ls, stockPrice) == ReducePLF(ls, stockPrice, FZero)

minPriceF(currentPrice, range) == FMul(ToDouble(currentPrice), FSub(FFromInt(1), ToDouble(range)))
maxPriceF(currentPrice, range) == FMul(ToDouble(currentPrice), FAdd(FFromInt(1), ToDouble(range)))
stepF(currentPrice, range) ==
    FDivInt(FSub(maxPriceF(currentPrice, range), minPriceF(currentPrice, range)), CurveSteps)

LoopConditionF == FLe(price, maxPriceF(inp.currentPrice, RangeOf(inp)))

CurvePointF(ls, p) == Point(FRoundCents(p), FRoundCents(calculateStrategyPLF(ls, p)))

FCurveLegLists ==
    { <<Leg("call", "long", Num(100), Num(5), Num(1), Num(100))>>,
      <<Leg("put", "short", Num(100), Num(3), Num(1), Num(100)),
        Leg("put", "long", Num(95), Num(1), Num(1), Num(100))>> }
FCurvePrices == {Num(100), Num(150), Rat(12345, 100)}
FCurveRanges == {Rat(1, 5), Rat(3, 10)}

\* a call generatePLCurve(legs, currentPrice, range), or generatePLCurve(legs, currentPrice)
CurveCallF ==
    /\ pc = "idle" /\ status = "none"
    /\ \E ls \in FCurveLegLists, c \in FCurvePrices, r \in Optional(FCurveRanges) :
          /\ inp' = [NoInput EXCEPT !.currentPrice = c, !.range = r, !.legsGiven = TRUE]
          /\ legs' = ls
          /\ price' = minPriceF(c, RangeOf(inp'))
    /\ op' = "generatePLCurve"
    /\ pc' = "curve"
    /\ status' = "running"
    /\ points' = <<>>
    /\ UNCHANGED <<value, metrics>>
    /\ UNCHANGED hostVars

CurveStepF ==
    /\ pc = "curve"
    /\ LoopConditionF
    /\ Len(points) < MaxPoints
    /\ points' = Append(points, CurvePointF(legs, price))
    /\ price' = FAdd(price, stepF(inp.currentPrice, RangeOf(inp)))
    /\ UNCHANGED <<pc, op, inp, legs, status, value, metrics>>
    /\ UNCHANGED hostVars

CurveReturnF ==
    /\ pc = "curve"
    /\ ~LoopConditionF
    /\ pc' = "idle"
    /\ status' = "ok"
    /\ UNCHANGED <<op, inp, legs, value, metrics, price, points>>
    /\ UNCHANGED hostVars


\* the j-th of the 101 samples, exactly: minPrice + (j - 1) * step
Sample(j) ==
    JAdd(minPriceOf(inp.currentPrice, RangeOf(inp)),
         JMul(Num(j - 1), stepOf(inp.currentPrice, RangeOf(inp))))

\* C5: for every currentPrice > 0 and range > 0 (default 0.5), generatePLCurve returns exactly
\* 101 points whose stockPrice values are ascending and uniformly spaced, the first
\* currentPrice*(1-range) and the last currentPrice*(1+range), each rounded to cents, with each
\* profitLoss the cent-rounded sum of the leg payoffs at that sample.
C5_Curve101Points ==
    (op = "generatePLCurve" /\ status = "ok" /\ JGt(inp.currentPrice, Zero) /\ JGt(RangeOf(inp), Zero)) =>
        /\ Len(points) = CurveSteps + 1
        /\ points[1].stockPrice = ToDouble(RoundCents(minPriceOf(inp.currentPrice, RangeOf(inp))))
        /\ points[Len(points)].stockPrice = ToDouble(RoundCents(maxPriceOf(inp.currentPrice, RangeOf(inp))))
        /\ \A j \in 1..(Len(points) - 1) : FLe(points[j].stockPrice, points[j + 1].stockPrice)
        /\ \A j \in 1..Len(points) :
              /\ points[j].stockPrice = ToDouble(RoundCents(Sample(j)))
              /\ points[j].profitLoss = ToDouble(RoundCents(calculateStrategyPL(legs, Sample(j))))

----------------------------------------------------------------------------
(* strategyCalculator in binary64: findBreakEvenPoints, one loop iteration per *)
(* step.  value holds previousPL, points the break-even prices pushed so far.  *)

\* the legs array a calculator builds from its parameters
LegsOfStrategy(i) ==
    CASE i.strategyType = "long_call" ->
            <<Leg("call", "long", i.strikePrice, i.premium, i.quantity, Num(SharesPerContract))>>
      [] i.strategyType = "long_put" ->
            <<Leg("put", "long", i.strikePrice, i.premium, i.quantity, Num(SharesPerContract))>>
      [] i.strategyType = "short_call" ->
            <<Leg("call", "short", i.strikePrice, i.premium, i.quantity, Num(SharesPerContract))>>
      [] i.strategyType = "short_put" ->
            <<Leg("put", "short", i.strikePrice, i.premium, i.quantity, Num(SharesPerContract))>>
      [] i.strategyType = "bull_put_spread" ->
            <<Leg("put", "short", i.shortStrike, i.shortPremium, i.quantity, Num(SharesPerContract)),
              Leg("put", "long", i.longStrike, i.longPremium, i.quantity, Num(SharesPerContract))>>
      [] i.strategyType = "bear_call_spread" ->
            <<Leg("call", "short", i.shortStrike, i.shortPremium, i.quantity, Num(SharesPerContract)),
              Leg("call", "long", i.longStrike, i.longPremium, i.quantity, Num(SharesPerContract))>>

scanStep == Rat(1, 100)
scanMinPriceF(currentPrice) == FMul(ToDouble(currentPrice), ToDouble(Rat(1, 2)))
scanMaxPriceF(currentPrice) == FMul(ToDouble(currentPrice), ToDouble(Rat(3, 2)))

\* (previousPL < 0 && currentPL >= 0) || (previousPL > 0 && currentPL <= 0)
SignChanged(previousPL, currentPL) ==
    \/ FLt(previousPL, FZero) /\ FLe(FZero, currentPL)
    \/ FLt(FZero, previousPL) /\ FLe(currentPL, FZero)

\* the strategies the scan is run on: penny-priced contracts, so that a scan is about a hundred
\* steps long; strike 2 puts the break-even outside the scanned window, strike and premium 0.25
\* put a call's break-even on the window's first price
ScanSingleTerms == {<<Num(1), Rat(1, 20)>>, <<Num(2), Rat(1, 20)>>, <<Rat(1, 4), Rat(1, 4)>>}
ScanRequests ==
    {[NoInput EXCEPT !.strategyType = st, !.strikePrice = x[1], !.premium = x[2],
                     !.quantity = Num(1), !.currentPrice = Num(1)] :
        st \in SingleLegTypes, x \in ScanSingleTerms}
    \cup
    {[NoInput EXCEPT !.strategyType = "bull_put_spread", !.shortStrike = Num(1), !.shortPremium = Rat(1, 20),
                     !.longStrike = Rat(9, 10), !.longPremium = Rat(1, 50),
                     !.quantity = Num(1), !.currentPrice = Num(1)],
     [NoInput EXCEPT !.strategyType = "bear_call_spread", !.shortStrike = Num(1), !.shortPremium = Rat(1, 20),
                     !.longStrike = Rat(11, 10), !.longPremium = Rat(1, 50),
                     !.quantity = Num(1), !.currentPrice = Num(1)]}

\* a call findBreakEvenPoints(legs, currentPrice) on the legs of a strategy
ScanCallF ==
    /\ pc = "idle" /\ status = "none"
    /\ \E i \in ScanRequests :
          /\ inp' = i
          /\ legs' = LegsOfStrategy(i)
          /\ value' = calculateStrategyPLF(legs', scanMinPriceF(i.currentPrice))
          /\ price' = FAdd(scanMinPriceF(i.currentPrice), ToDouble(scanStep))
    /\ op' = "findBreakEvenPoints"
    /\ pc' = "scan"
    /\ status' = "running"
    /\ points' = <<>>
    /\ UNCHANGED metrics
    /\ UNCHANGED hostVars

ScanStepF ==
    /\ pc = "scan"
    /\ FLe(price, scanMaxPriceF(inp.currentPrice))
    /\ Len(points) < MaxPoints
    /\ value' = calculateStrategyPLF(legs, price)
    /\ points' = IF SignChanged(value, value') THEN Append(points, FRoundCents(price)) ELSE points
    /\ price' = FAdd(price, ToDouble(scanStep))
    /\ UNCHANGED <<pc, op, inp, legs, status, metrics>>
    /\ UNCHANGED hostVars

ScanReturnF ==
    /\ pc = "scan"
    /\ ~FLe(price, scanMaxPriceF(inp.currentPrice))
    /\ pc' = "idle"
    /\ status' = "ok"
    /\ UNCHANGED <<op, inp, legs, value, metrics, price, points>>
    /\ UNCHANGED hostVars

ProbabilityCall == op = "calculateProbability" /\ status = "ok"

StatedDegenerate(i) ==
    \/ JLe(i.daysToExpiration, Zero)
    \/ JLe(i.impliedVolatility, Zero)
    \/ JLe(i.stockPrice, Zero)
    \/ JLe(i.strikePrice, Zero)

\* C13: calculateProbability returns exactly {probabilityITM: 0, probabilityOTM: 1, d1: 0, d2: 0},
\* without raising, whenever daysToExpiration <= 0 or impliedVolatility <= 0 or stockPrice <= 0
\* or strikePrice <= 0, whatever the option type and the other parameters are.
C13_DegenerateResult ==
    (op = "calculateProbability" /\ StatedDegenerate(inp)) =>
        /\ status = "ok"
        /\ value = [probabilityITM |-> Num(0), probabilityOTM |-> Num(1), d1 |-> Num(0), d2 |-> Num(0)]

\* C13's case: a put with a negative day count and every other parameter in order
C13_Witness ==
    /\ ProbabilityCall /\ inp.optionType = "put" /\ inp.daysToExpiration = Num(-5)
    /\ inp.stockPrice = Num(100) /\ inp.strikePrice = Num(110) /\ inp.impliedVolatility = Rat(1, 2)
    /\ value.probabilityITM = Num(0) /\ value.probabilityOTM = Num(1)

\* the result of the same call for the other option type
OtherTypeResult ==
    calculateProbability(inp.stockPrice, inp.strikePrice, inp.daysToExpiration, inp.riskFreeRate,
                         inp.impliedVolatility, IF inp.optionType = "call" THEN "put" ELSE "call")

\* two probabilities are the same number: 1 - (1 - p) is p up to the rounding of the subtraction
Canon(v) == IF v.k = "cdf" /\ v.form = "1-(1-p)" THEN Cdf("p", v.at) ELSE v
SameProbability(a, b) == Canon(a) = Canon(b)

\* a + b = 1; a double x and the double 1 - x always add up to the double 1
SumsToOne(a, b) ==
    IF IsNum(a) /\ IsNum(b) THEN JAdd(a, b) = Num(1)
    ELSE a.k = "cdf" /\ b = OneMinus(a)

\* C14: for non-degenerate inputs probabilityITM = N(d2) for a call and N(-d2) for a put, with
\* d2 = d1 - sigma*sqrt(T) and T = days/365; in every result probabilityITM + probabilityOTM = 1;
\* for the same inputs the call's probabilityITM equals the put's probabilityOTM.
C14_ItmOtmComplement ==
    ProbabilityCall =>
        /\ SumsToOne(value.probabilityITM, value.probabilityOTM)
        /\ ~StatedDegenerate(inp) =>
              /\ value.probabilityITM =
                    (IF inp.optionType = "call" THEN normalCDF(value.d2) ELSE normalCDF(SymNeg(value.d2)))
              /\ (IsNum(value.d1) /\ IsNum(value.d2)) =>
                    value.d2 = JSub(value.d1, JMul(inp.impliedVolatility,
                                                   MathSqrt(JDiv(inp.daysToExpiration, Num(DaysPerYear)))))
              /\ inp.optionType = "call" =>
                    SameProbability(value.probabilityITM, OtherTypeResult.probabilityOTM)

AboveHalf(v) == IF v.k = "cdf" THEN v.form = "1-p" ELSE JGt(v, Rat(1, 2))
BelowHalf(v) == IF v.k = "cdf" THEN v.form = "p" ELSE JLt(v, Rat(1, 2))
Positive(x) == IF x.k = "sym" THEN x.n = 1 ELSE JGt(x, Zero)

\* an at-the-money call with impliedVolatility > 0, daysToExpiration > 0 and riskFreeRate > 0
AtTheMoneyCall ==
    /\ ProbabilityCall /\ inp.optionType = "call" /\ ~StatedDegenerate(inp)
    /\ inp.stockPrice = inp.strikePrice
    /\ JGt(Default(inp.riskFreeRate, DefaultRiskFreeRate), Zero)

\* C15 as stated: for an at-the-money option and any impliedVolatility > 0, daysToExpiration > 0
\* and riskFreeRate > 0, calculateProbability for a call returns probabilityITM greater than 0.5
\* (equivalently d2 > 0).
C15_AtmCallAboveHalf ==
    AtTheMoneyCall => AboveHalf(value.probabilityITM) /\ Positive(value.d2)

\* C15, amended: for such a call probabilityITM is greater than 0.5 exactly when the computed d2
\* is positive and is below 0.5 otherwise; d2 is positive exactly when riskFreeRate exceeds
\* impliedVolatility^2 / 2.
C15_AtmCallFollowsD2 ==
    AtTheMoneyCall =>
        /\ AboveHalf(value.probabilityITM) <=> Positive(value.d2)
        /\ BelowHalf(value.probabilityITM) <=> ~Positive(value.d2)
        /\ Positive(value.d2) <=>
              JGt(Default(inp.riskFreeRate, DefaultRiskFreeRate),
                  JDiv(JMul(inp.impliedVolatility, inp.impliedVolatility), Num(2)))

\* C15's case: the default rate 0.05 against a volatility of 0.5, one year: d2 = -0.15
C15_Witness ==
    /\ AtTheMoneyCall /\ inp.riskFreeRate = undefined /\ inp.impliedVolatility = Rat(1, 2)
    /\ inp.daysToExpiration = Num(365)
    /\ value.d1 = Rat(7, 20) /\ value.d2 = Rat(-3, 20) /\ BelowHalf(value.probabilityITM)

Unavailable(x) == x = undefined \/ JLe(x, Zero)

\* C16: the strategy-level profit-probability wrapper returns 50 percent, not the Black-Scholes
\* degenerate 0 or 100 percent, whenever implied volatility or days-to-expiration is unavailable
\* or non-positive, for long and for short positions and for both option types.
C16_WrapperDefaultsTo50 ==
    (op = "calculateProfitProbability" /\ (Unavailable(inp.impliedVolatility) \/ Unavailable(inp.daysToExpiration)))
        => status = "ok" /\ value \in {Num(50), Rat(1, 2)}

StrategyAnswered == op = "trpc.calculateStrategy" /\ status = "ok"

BullishTypes == {"long_call", "short_put", "bull_put_spread"}
BearishTypes == {"long_put", "short_call", "bear_call_spread"}

\* a percentage of at least 50.  The requests of this model keep currentPrice at least half a
\* percent away from a break-even it differs from, so a Pct(-1) stays below 50 after rounding.
AtLeast50(v) == IF v.k = "pct" THEN v.n = 1 ELSE IsNum(v) /\ JGe(v, Num(50))

\* a profit probability was attached to a numeric break-even
ProbabilityAttached ==
    /\ StrategyAnswered
    /\ metrics.profitProbability.k \in {"num", "pct"}
    /\ IsNum(metrics.breakEvenPoints[1])

\* C17: the profitProbability attached by calculateStrategy follows the strategy's direction:
\* for long call, short put and bull put spread it is at least 50 exactly when
\* currentPrice >= breakEven; for long put, short call and bear call spread it is at least 50
\* exactly when currentPrice <= breakEven.
C17_ProbabilityFollowsDirection ==
    ProbabilityAttached =>
        /\ inp.strategyType \in BullishTypes =>
              (AtLeast50(metrics.profitProbability) <=> JGe(inp.currentPrice, metrics.breakEvenPoints[1]))
        /\ inp.strategyType \in BearishTypes =>
              (AtLeast50(metrics.profitProbability) <=> JLe(inp.currentPrice, metrics.breakEvenPoints[1]))

\* the metrics of the closed-form calculator for the request
CalculatorMetrics == SwitchStrategy([inp EXCEPT !.quantity = Default(inp.quantity, Num(1))])

\* C18: calculateStrategy adds profitProbability only when both impliedVolatility and
\* daysToExpiration are supplied and the strategy has at least one break-even, otherwise the
\* field is absent; netCost, maxProfit, maxLoss, breakEvenPoints and returnOnRisk are the
\* closed-form calculator's values in both cases.
C18_ProbabilityOnlyWithInputs ==
    StrategyAnswered =>
        /\ metrics.profitProbability # undefined =>
              /\ inp.impliedVolatility # undefined
              /\ inp.daysToExpiration # undefined
              /\ Len(metrics.breakEvenPoints) > 0
        /\ metrics.netCost = CalculatorMetrics.netCost
        /\ metrics.maxProfit = CalculatorMetrics.maxProfit
        /\ metrics.maxLoss = CalculatorMetrics.maxLoss
        /\ metrics.breakEvenPoints = CalculatorMetrics.breakEvenPoints
        /\ metrics.returnOnRisk = CalculatorMetrics.returnOnRisk

\* C18's case: a long call with volatility and days supplied, probability attached
C18_Witness ==
    /\ StrategyAnswered /\ inp.strategyType = "long_call"
    /\ inp.currentPrice = Num(98) /\ inp.strikePrice = Num(100) /\ inp.premium = Num(5)
    /\ inp.impliedVolatility = Rat(1, 4) /\ inp.daysToExpiration = Num(30)
    /\ metrics.breakEvenPoints = <<Num(105)>>
    /\ metrics.profitProbability = Pct(-1)

\* a double that is the cent value of q, or one cent beside it
WithinOneCent(f, q) == \E k \in -1..1 : f = ToDouble(JAdd(RoundCents(q), Rat(k, 100)))

ScanDone == op = "findBreakEvenPoints" /\ status = "ok"

\* C11: for each of the six canonical strategies and any currentPrice > 0, the list the scan
\* findBreakEvenPoints returns for the strategy's legs equals the breakEvenPoints of the matching
\* closed-form calculator, within one cent.
C11_ScanMatchesClosedForm ==
    (ScanDone /\ JGt(inp.currentPrice, Zero)) =>
        LET closed == SwitchStrategy(inp).breakEvenPoints
        IN  /\ Len(points) = Len(closed)
            /\ \A j \in 1..Len(points) : WithinOneCent(points[j], closed[j])

\* the prices the scan is stated to visit: 0.5 * currentPrice + k * 0.01 up to 1.5 * currentPrice
GridPrice(k) == JAdd(JMul(inp.currentPrice, Rat(1, 2)), JMul(Num(k), scanStep))
GridSteps == {k \in 0..MaxPoints : JLe(GridPrice(k), JMul(inp.currentPrice, Rat(3, 2)))}
GridPL(k) == calculateStrategyPL(legs, GridPrice(k))

\* the steps that are stated to contribute an entry: the P&L is zero on the step, or it has
\* opposite signs on the step and on the one before it
StatedCrossings ==
    {k \in GridSteps :
        \/ GridPL(k) = Zero
        \/ k > 0 /\ Sign(GridPL(k - 1)) * Sign(GridPL(k)) < 0}

\* C12: findBreakEvenPoints scans from 0.5*currentPrice to 1.5*currentPrice in 0.01 steps and
\* returns an ascending list with one price for every pair of consecutive steps between which
\* the P&L changes sign; a step on which the P&L is exactly zero contributes exactly one entry,
\* never two and never none.
C12_ScanSignChanges ==
    ScanDone =>
        /\ Len(points) = Cardinality(StatedCrossings)
        /\ \A j \in 1..Len(points) : \E k \in StatedCrossings : WithinOneCent(points[j], GridPrice(k))
        /\ \A j \in 1..(Len(points) - 1) : FLt(points[j], points[j + 1])

NextScan ==
    \/ ScanCallF
    \/ ScanStepF
    \/ ScanReturnF
    \/ NextCall

SpecScan == Init /\ [][NextScan]_vars

----------------------------------------------------------------------------
(* calculateStrategyPL in binary64 on a hedged pair: two legs of one contract, *)
(* one long and one short                                                      *)

\* strike, premium of the long leg, premium of the short leg
PairTerms ==
    {<<Num(100), Rat(11, 10), Rat(11, 5)>>, <<Num(100), Rat(5, 2), Rat(5, 2)>>,
     <<Num(100), Rat(1, 10), Rat(3, 10)>>, <<Num(100), Rat(11, 10), Rat(3, 10)>>,
     <<Num(95), Rat(11, 10), Rat(11, 5)>>}
PairPrices == {Num(0), Num(90), Num(95), Rat(1001, 10), Rat(1033, 10), Num(110), Num(120)}
PairQuantities == {Num(1), Num(2)}

HedgedPair(t, x, q) ==
    <<Leg(t, "long", x[1], x[2], q, Num(SharesPerContract)),
      Leg(t, "short", x[1], x[3], q, Num(SharesPerContract))>>

\* a call calculateStrategyPL(legs, stockPrice) on a hedged pair
PairCallF ==
    /\ pc = "idle" /\ status = "none"
    /\ \E t \in OptionTypes, x \in PairTerms, q \in PairQuantities, S \in PairPrices :
          /\ legs' = HedgedPair(t, x, q)
          /\ inp' = [NoInput EXCEPT !.stockPrice = S]
          /\ value' = calculateStrategyPLF(legs', ToDouble(S))
    /\ op' = "calculateStrategyPL"
    /\ status' = "ok"
    /\ UNCHANGED <<pc, price, points, metrics>>
    /\ UNCHANGED hostVars

PairAnswered == op = "calculateStrategyPL" /\ status = "ok" /\ Len(legs) = 2

\* (short premium - long premium) * quantity * sharesPerContract, computed in doubles and
\* computed exactly and then rounded to a double
StatedPairPLF ==
    FMul(FMul(FSub(ToDouble(legs[2].premium), ToDouble(legs[1].premium)), ToDouble(legs[1].quantity)),
         ToDouble(legs[1].sharesPerContract))
StatedPairPL ==
    ToDouble(JMul(JMul(JSub(legs[2].premium, legs[1].premium), legs[1].quantity), legs[1].sharesPerContract))

\* C19: a fully hedged opposite pair (same type, strike, quantity and sharesPerContract, one long
\* and one short) has a combined calculateStrategyPL equal to
\* (short premium - long premium) * quantity * sharesPerContract at every terminal price S,
\* the same value for all S.
C19_HedgedPairConstant ==
    PairAnswered =>
        /\ value \in {StatedPairPLF, StatedPairPL}
        /\ \A S \in PairPrices : value = calculateStrategyPLF(legs, ToDouble(S))

NextPair ==
    \/ PairCallF
    \/ NextCall

SpecPair == Init /\ [][NextPair]_vars

----------------------------------------------------------------------------
(* calls that follow one another in one process: the caller keeps the curve an *)
(* earlier call returned while it makes the next                               *)

\* the caller goes on to its next call; the array the last generatePLCurve returned stays
CallerContinues ==
    /\ pc = "idle" /\ status # "none"
    /\ op' = "none"
    /\ inp' = NoInput
    /\ legs' = <<>>
    /\ status' = "none"
    /\ value' = undefined
    /\ metrics' = NoMetrics
    /\ price' = undefined
    /\ UNCHANGED <<pc, points>>
    /\ UNCHANGED hostVars

\* the curve of the request as a function of the request alone
StatedCurve ==
    IF JGt(minPriceOf(inp.currentPrice, RangeOf(inp)), maxPriceOf(inp.currentPrice, RangeOf(inp)))
    THEN <<>>
    ELSE [j \in 1..(CurveSteps + 1) |-> CurvePoint(legs, Sample(j))]

CurveReturned == op = "trpc.generatePLCurve" /\ pc = "idle" /\ status = "ok"

\* every result is the function of the call's own inputs
ResultOfInputsOnly ==
    /\ CurveReturned => points = StatedCurve
    /\ op = "calculateProbability" =>
          value = calculateProbability(inp.stockPrice, inp.strikePrice, inp.daysToExpiration,
                                       inp.riskFreeRate, inp.impliedVolatility, inp.optionType)
    /\ op = "calculator" => metrics = SwitchStrategy(inp)

\* a running call leaves its legs and parameters as they were passed; a call of another function
\* leaves the curve returned earlier as it was
NothingSharedWritten ==
    /\ pc = "curve" => legs' = legs /\ inp' = inp
    /\ op' \in {"calculateProbability", "calculator"} => points' = points

\* C20: the core operations are pure: two calls of generatePLCurve (of a metric calculator, of a
\* probability function) with identical inputs return identical results whatever calls ran
\* before or between them, no call modifies its input legs, and no call reads or writes state
\* shared between invocations.
C20_CallsArePure == [](ResultOfInputsOnly) /\ [][NothingSharedWritten]_vars

\* C20's case: a probability call returns while the 101 points of an earlier generatePLCurve
\* call are still held
C20_Witness ==
    /\ op = "calculateProbability" /\ status = "ok"
    /\ Len(points) = CurveSteps + 1
    /\ value.probabilityOTM = OneMinus(value.probabilityITM)

NextPure ==
    \/ GeneratePLCurveProcedure
    \/ CurveStep
    \/ CurveReturn
    \/ CallProbability
    \/ CallSingleLeg
    \/ CallerContinues

SpecPure == Init /\ [][NextPure]_vars

WrapperAnswered == op = "calculateProfitProbability" /\ status = "ok"

\* the wrapper's result for the other side of the same trade
OtherSideResult ==
    calculateProfitProbabilityBS(inp.stockPrice, inp.breakEvenPrice, inp.daysToExpiration,
                                 inp.impliedVolatility,
                                 IF inp.strategyType = "long" THEN "short" ELSE "long", inp.optionType)

\* a + b = 1, with 1 - (1 - p) taken for p
Complementary(a, b) == SumsToOne(Canon(a), Canon(b)) \/ SumsToOne(Canon(b), Canon(a))

\* C27: for the same stockPrice, breakEvenPrice, impliedVolatility, daysToExpiration and
\* optionType (all non-degenerate), the Black-Scholes wrapper calculateProfitProbability gives
\* complementary results for the two sides of the trade: its value for strategyType 'long' plus
\* its value for strategyType 'short' equals 1.
C27_WrapperSidesComplement ==
    (/\ WrapperAnswered
     /\ JGt(inp.stockPrice, Zero) /\ JGt(inp.breakEvenPrice, Zero)
     /\ JGt(inp.impliedVolatility, Zero) /\ JGt(inp.daysToExpiration, Zero)) =>
        Complementary(value, OtherSideResult)

----------------------------------------------------------------------------
(* the closed-form metrics against the payoff of the legs the calculator builds *)

\* strike(s) > 0, premiums >= 0, quantity > 0 and the spread's strikes in the strategy's order
StatedParameters(i) ==
    /\ JGt(i.quantity, Zero)
    /\ IF i.strategyType \in SingleLegTypes
       THEN JGt(i.strikePrice, Zero) /\ JGe(i.premium, Zero)
       ELSE /\ JGt(i.shortStrike, Zero) /\ JGt(i.longStrike, Zero)
            /\ JGe(i.shortPremium, Zero) /\ JGe(i.longPremium, Zero)
            /\ IF i.strategyType = "bull_put_spread" THEN JGt(i.shortStrike, i.longStrike)
               ELSE JLt(i.shortStrike, i.longStrike)

CalculatorAnswered == op = "calculator" /\ status = "ok" /\ StatedParameters(inp)

\* C23: for each of the six calculators, given strike(s) > 0, premiums >= 0, quantity > 0 and,
\* for spreads, strikes ordered per the strategy's convention, the returned break-even is a zero
\* of the payoff: calculateStrategyPL(legs of that strategy, breakEvenPoints[0]) = 0.
C23_BreakEvenIsZeroOfPayoff ==
    CalculatorAnswered =>
        calculateStrategyPL(LegsOfStrategy(inp), metrics.breakEvenPoints[1]) = Zero

----------------------------------------------------------------------------
(* the calculators' maxProfit and maxLoss in binary64, against calculateStrategyPL *)
(* of the legs they build.  An unbounded value is the Infinity of the exact layer. *)

\* premium * quantity * 100 in doubles
Times100F(x, quantity) == FMul(FMul(x, ToDouble(quantity)), FFromInt(SharesPerContract))

netCreditF(i) == Times100F(FSub(ToDouble(i.shortPremium), ToDouble(i.longPremium)), i.quantity)

maxProfitF(i) ==
    CASE i.strategyType = "long_call" -> Infinity
      [] i.strategyType = "long_put" ->
            Times100F(FSub(ToDouble(i.strikePrice), ToDouble(i.premium)), i.quantity)
      [] i.strategyType \in {"short_call", "short_put"} -> Times100F(ToDouble(i.premium), i.quantity)
      [] i.strategyType \in SpreadTypes -> netCreditF(i)

maxLossF(i) ==
    CASE i.strategyType \in {"long_call", "long_put"} -> Times100F(ToDouble(i.premium), i.quantity)
      [] i.strategyType = "short_call" -> Infinity
      [] i.strategyType = "short_put" ->
            Times100F(FSub(ToDouble(i.strikePrice), ToDouble(i.premium)), i.quantity)
      [] i.strategyType = "bull_put_spread" ->
            FSub(Times100F(FSub(ToDouble(i.shortStrike), ToDouble(i.longStrike)), i.quantity), netCreditF(i))
      [] i.strategyType = "bear_call_spread" ->
            FSub(Times100F(FSub(ToDouble(i.longStrike), ToDouble(i.shortStrike)), i.quantity), netCreditF(i))

\* premiums in cents that are no doubles, and one that is
BoundsPremiums == {Rat(3, 20), Rat(11, 10), Rat(5, 2)}
BoundsQuantities == {Num(1), Num(3)}
BoundsPrices == {Num(0), Num(90), Num(95), Num(100), Num(110), Num(120)}
BoundsRequests ==
    {[NoInput EXCEPT !.strategyType = st, !.strikePrice = Num(100), !.premium = p, !.quantity = q] :
        st \in SingleLegTypes, p \in BoundsPremiums, q \in BoundsQuantities}
    \cup
    {[NoInput EXCEPT !.strategyType = "bull_put_spread", !.shortStrike = Num(100), !.shortPremium = p,
                     !.longStrike = Num(95), !.longPremium = Rat(3, 20), !.quantity = q] :
        p \in BoundsPremiums, q \in BoundsQuantities}
    \cup
    {[NoInput EXCEPT !.strategyType = "bear_call_spread", !.shortStrike = Num(100), !.shortPremium = p,
                     !.longStrike = Num(110), !.longPremium = Rat(3, 20), !.quantity = q] :
        p \in BoundsPremiums, q \in BoundsQuantities}

\* a call of a calculator, then calculateStrategyPL(legs, S) on the legs it built
BoundsCallF ==
    /\ pc = "idle" /\ status = "none"
    /\ \E i \in BoundsRequests, S \in BoundsPrices :
          /\ inp' = [i EXCEPT !.stockPrice = S]
          /\ legs' = LegsOfStrategy(i)
          /\ value' = calculateStrategyPLF(legs', ToDouble(S))
          /\ metrics' = [NoMetrics EXCEPT !.maxProfit = maxProfitF(i), !.maxLoss = maxLossF(i)]
    /\ op' = "calculator, calculateStrategyPL"
    /\ status' = "ok"
    /\ UNCHANGED <<pc, price, points>>
    /\ UNCHANGED hostVars

BoundsAnswered == op = "calculator, calculateStrategyPL" /\ status = "ok" /\ StatedParameters(inp)

\* the payoff at some terminal price of the model is exactly the bound
AttainedF(bound) == \E S \in BoundsPrices : calculateStrategyPLF(legs, ToDouble(S)) = bound

\* C24: for each of the six calculators, given strike(s) > 0, premiums >= 0, quantity > 0 and
\* correctly ordered spread strikes, the closed-form bounds enclose the payoff at every terminal
\* price S >= 0: -maxLoss <= calculateStrategyPL(legs, S) <= maxProfit, and a finite maxProfit or
\* maxLoss is attained at some S >= 0.
C24_BoundsEnclosePayoff ==
    BoundsAnswered =>
        /\ metrics.maxLoss # Infinity =>
              FLe(FNeg(metrics.maxLoss), value) /\ AttainedF(FNeg(metrics.maxLoss))
        /\ metrics.maxProfit # Infinity =>
              FLe(value, metrics.maxProfit) /\ AttainedF(metrics.maxProfit)

NextBounds ==
    \/ BoundsCallF
    \/ NextCall

SpecBounds == Init /\ [][NextBounds]_vars

\* the parameters of the calculator whose legs a list is: one leg, or a short and a long leg of
\* one type (puts for the bull put spread, calls for the bear call spread)
StrategyOfLegs(ls) ==
    IF Len(ls) = 1
    THEN [NoInput EXCEPT !.strategyType = ls[1].position \o "_" \o ls[1].type,
                         !.strikePrice = ls[1].strikePrice, !.premium = ls[1].premium,
                         !.quantity = ls[1].quantity]
    ELSE [NoInput EXCEPT !.strategyType = IF ls[1].type = "put" THEN "bull_put_spread" ELSE "bear_call_spread",
                         !.shortStrike = ls[1].strikePrice, !.shortPremium = ls[1].premium,
                         !.longStrike = ls[2].strikePrice, !.longPremium = ls[2].premium,
                         !.quantity = ls[1].quantity]

IsCanonical(ls) ==
    \/ Len(ls) = 1
    \/ /\ Len(ls) = 2 /\ ls[1].position = "short" /\ ls[2].position = "long" /\ ls[1].type = ls[2].type
       /\ StatedParameters(StrategyOfLegs(ls))

ClosedFormBreakEven(ls) == SwitchStrategy(StrategyOfLegs(ls)).breakEvenPoints[1]

\* C26: for the legs of any of the six canonical strategies whose closed-form break-even lies
\* inside the sampled range [0.5*currentPrice, 1.5*currentPrice], the break-even reported by
\* POST /options/calculate equals the closed-form break-even of the matching calculator within
\* one cent.
C26_RestMatchesClosedForm ==
    (/\ RestAnswered /\ IsCanonical(legs)
     /\ JLe(minPriceOf(inp.currentPrice, RangeOf(inp)), ClosedFormBreakEven(legs))
     /\ JLe(ClosedFormBreakEven(legs), maxPriceOf(inp.currentPrice, RangeOf(inp)))) =>
        /\ Len(metrics.breakEvenPoints) = 1
        /\ JLe(MathAbs(JSub(metrics.breakEvenPoints[1], ClosedFormBreakEven(legs))), Rat(1, 100))

----------------------------------------------------------------------------
(* the binary64 specification of generatePLCurve *)

NextF ==
    \/ CurveCallF
    \/ CurveStepF
    \/ CurveReturnF
    \/ NextCall

SpecF == Init /\ [][NextF]_vars


----------------------------------------------------------------------------
(* the StrategyAnalyzer page: its state, its derived values, its handlers and its effect *)

PageTickers == {"AAPL", "MSFT"}
PageDates == {"2026-12-18"}
PageStrikes == {"150"}
\* what the user types into a premium input: a number, or nothing after deleting it
PageTyped == {"", "2.50"}
\* midpoint.toFixed(2) of a quote
PageMidpoints == {"2.35"}
\* the price getStockPrice answers with
PagePrice == 150

isSpread(p) == p.strategyType = "bull_put_spread" \/ p.strategyType = "bear_call_spread"

\* stockData?.price is truthy
HasStockPrice(p) == "price" \in DOMAIN p.stockData /\ p.stockData.price # 0

\* the value the page computes at each render; the numbers stay the texts parseFloat will read
calculateParams_NoFieldCheck(p) ==
    IF ~HasStockPrice(p) THEN null
    ELSE IF isSpread(p)
         THEN [strategyType |-> p.strategyType, currentPrice |-> p.stockData.price,
               shortStrike |-> p.shortStrike, shortPremium |-> p.shortPremium,
               longStrike |-> p.longStrike, longPremium |-> p.longPremium]
         ELSE [strategyType |-> p.strategyType, currentPrice |-> p.stockData.price,
               strikePrice |-> p.strikePrice, premium |-> p.premium]

calculateParams(p) ==
    IF ~HasStockPrice(p) THEN null
    ELSE IF isSpread(p)
         THEN IF p.shortStrike = "" \/ p.shortPremium = "" \/ p.longStrike = "" \/ p.longPremium = ""
              THEN null
              ELSE [strategyType |-> p.strategyType, currentPrice |-> p.stockData.price,
                    shortStrike |-> p.shortStrike, shortPremium |-> p.shortPremium,
                    longStrike |-> p.longStrike, longPremium |-> p.longPremium]
         ELSE IF p.strikePrice = "" \/ p.premium = ""
              THEN null
              ELSE [strategyType |-> p.strategyType, currentPrice |-> p.stockData.price,
                    strikePrice |-> p.strikePrice, premium |-> p.premium]

\* the legs of the curve request: one for a single-leg type, the short and the long one of a spread
plCurveParams(p) ==
    IF ~HasStockPrice(p) \/ calculateParams(p) = null THEN null
    ELSE [legs |-> IF isSpread(p)
                   THEN LET spreadType == IF p.strategyType = "bear_call_spread" THEN "call" ELSE "put"
                        IN  <<[type |-> spreadType, position |-> "short",
                               strikePrice |-> p.shortStrike, premium |-> p.shortPremium],
                              [type |-> spreadType, position |-> "long",
                               strikePrice |-> p.longStrike, premium |-> p.longPremium]>>
                   ELSE <<[type |-> IF p.strategyType \in {"long_call", "short_call"}
                                    THEN "call" ELSE "put",
                           position |-> IF p.strategyType \in {"long_call", "long_put"}
                                        THEN "long" ELSE "short",
                           strikePrice |-> p.strikePrice, premium |-> p.premium]>>,
          currentPrice |-> p.stockData.price,
          range |-> "0.3"]

\* the enabled option of the two queries
calculateStrategyEnabled(p) == calculateParams(p) # null /\ p.shouldCalculate
generatePLCurveEnabled(p) == plCurveParams(p) # null /\ p.shouldCalculate

\* the dependencies of the auto-calculate effect
EffectDeps(p) ==
    <<p.stockData, isSpread(p), p.strikePrice, p.premium, p.shortStrike, p.shortPremium,
      p.longStrike, p.longPremium>>

\* the page renders with the state q an event left; the effect is due when a dependency changed
Render(q) ==
    page' = [q EXCEPT !.effect = IF EffectDeps(q) # EffectDeps(page) THEN "due" ELSE page.effect]

\* the data of the getStockPrice query for a ticker: what the cache holds, nothing for no ticker
StockDataOf(symbol, cache) == IF symbol \in cache THEN [price |-> PagePrice] ELSE NoData

\* an event is handled once the effects of the last render have run
PageIdle == page.effect = "done"

\* typing into the search box, shown while no ticker is selected
setTicker ==
    /\ PageIdle /\ page.selectedTicker = ""
    /\ \E text \in PageTickers \cup {""} : Render([page EXCEPT !.ticker = text])
    /\ UNCHANGED <<polygonClientInstance, constructed, held, db, savedStrategies, nextId, requests>>
    /\ UNCHANGED engineVars

handleTickerSelect ==
    /\ PageIdle /\ page.selectedTicker = "" /\ page.ticker # ""
    /\ \E symbol \in PageTickers :
        Render([page EXCEPT !.selectedTicker = symbol, !.ticker = "", !.shouldCalculate = FALSE,
                            !.expirationDate = "", !.strikePrice = "", !.premium = "",
                            !.shortStrike = "", !.shortPremium = "",
                            !.longStrike = "", !.longPremium = "",
                            !.stockData = StockDataOf(symbol, page.priceCache)])
    /\ UNCHANGED <<polygonClientInstance, constructed, held, db, savedStrategies, nextId, requests>>
    /\ UNCHANGED engineVars

\* the Change button
ChangeTicker ==
    /\ PageIdle /\ page.selectedTicker # ""
    /\ Render([page EXCEPT !.selectedTicker = "", !.ticker = "", !.stockData = NoData])
    /\ UNCHANGED <<polygonClientInstance, constructed, held, db, savedStrategies, nextId, requests>>
    /\ UNCHANGED engineVars

setStrategyType ==
    /\ PageIdle
    /\ \E t \in StrategyTypes : Render([page EXCEPT !.strategyType = t])
    /\ UNCHANGED <<polygonClientInstance, constructed, held, db, savedStrategies, nextId, requests>>
    /\ UNCHANGED engineVars

\* the dates offered are those of the selected ticker
setExpirationDate ==
    /\ PageIdle /\ page.selectedTicker # ""
    /\ \E d \in PageDates : Render([page EXCEPT !.expirationDate = d])
    /\ UNCHANGED <<polygonClientInstance, constructed, held, db, savedStrategies, nextId, requests>>
    /\ UNCHANGED engineVars

\* a strike select is disabled without an expiration date and offers the strikes of the ticker
StrikesOffered == page.selectedTicker # "" /\ page.expirationDate # ""

setStrikePrice ==
    /\ PageIdle /\ ~isSpread(page) /\ StrikesOffered
    /\ \E k \in PageStrikes : Render([page EXCEPT !.strikePrice = k])
    /\ UNCHANGED <<polygonClientInstance, constructed, held, db, savedStrategies, nextId, requests>>
    /\ UNCHANGED engineVars

setShortStrike ==
    /\ PageIdle /\ isSpread(page) /\ StrikesOffered
    /\ \E k \in PageStrikes : Render([page EXCEPT !.shortStrike = k])
    /\ UNCHANGED <<polygonClientInstance, constructed, held, db, savedStrategies, nextId, requests>>
    /\ UNCHANGED engineVars

setLongStrike ==
    /\ PageIdle /\ isSpread(page) /\ StrikesOffered
    /\ \E k \in PageStrikes : Render([page EXCEPT !.longStrike = k])
    /\ UNCHANGED <<polygonClientInstance, constructed, held, db, savedStrategies, nextId, requests>>
    /\ UNCHANGED engineVars

\* a premium is typed, or filled in by the effect of its quote query while that query is enabled
setPremium ==
    /\ PageIdle /\ ~isSpread(page)
    /\ \E text \in PageTyped \cup (IF StrikesOffered /\ page.strikePrice # ""
                                   THEN PageMidpoints ELSE {}) :
        Render([page EXCEPT !.premium = text])
    /\ UNCHANGED <<polygonClientInstance, constructed, held, db, savedStrategies, nextId, requests>>
    /\ UNCHANGED engineVars

setShortPremium ==
    /\ PageIdle /\ isSpread(page)
    /\ \E text \in PageTyped \cup (IF StrikesOffered /\ page.shortStrike # ""
                                   THEN PageMidpoints ELSE {}) :
        Render([page EXCEPT !.shortPremium = text])
    /\ UNCHANGED <<polygonClientInstance, constructed, held, db, savedStrategies, nextId, requests>>
    /\ UNCHANGED engineVars

setLongPremium ==
    /\ PageIdle /\ isSpread(page)
    /\ \E text \in PageTyped \cup (IF StrikesOffered /\ page.longStrike # ""
                                   THEN PageMidpoints ELSE {}) :
        Render([page EXCEPT !.longPremium = text])
    /\ UNCHANGED <<polygonClientInstance, constructed, held, db, savedStrategies, nextId, requests>>
    /\ UNCHANGED engineVars

\* the getStockPrice query of the selected ticker answers
StockPriceArrives ==
    /\ PageIdle /\ page.selectedTicker # "" /\ ~HasStockPrice(page)
    /\ Render([page EXCEPT !.stockData = [price |-> PagePrice],
                           !.priceCache = @ \cup {page.selectedTicker}])
    /\ UNCHANGED <<polygonClientInstance, constructed, held, db, savedStrategies, nextId, requests>>
    /\ UNCHANGED engineVars

\* the auto-calculate effect, after the render that changed one of its dependencies
AutoCalculateEffect ==
    /\ page.effect = "due"
    /\ page' = [page EXCEPT
           !.effect = "done",
           !.shouldCalculate =
               IF ~HasStockPrice(page) THEN FALSE
               ELSE IF isSpread(page)
                    THEN page.shortStrike # "" /\ page.shortPremium # ""
                         /\ page.longStrike # "" /\ page.longPremium # ""
                    ELSE page.strikePrice # "" /\ page.premium # ""]
    /\ UNCHANGED <<polygonClientInstance, constructed, held, db, savedStrategies, nextId, requests>>
    /\ UNCHANGED engineVars

NextPage ==
    \/ setTicker
    \/ handleTickerSelect
    \/ ChangeTicker
    \/ setStrategyType
    \/ setExpirationDate
    \/ setStrikePrice
    \/ setShortStrike
    \/ setLongStrike
    \/ setPremium
    \/ setShortPremium
    \/ setLongPremium
    \/ StockPriceArrives
    \/ AutoCalculateEffect

SpecPage == Init /\ [][NextPage]_vars

\* the fields the current strategy type requires are all non-empty
RequiredFieldsFilled(p) ==
    IF isSpread(p)
    THEN p.shortStrike # "" /\ p.shortPremium # "" /\ p.longStrike # "" /\ p.longPremium # ""
    ELSE p.strikePrice # "" /\ p.premium # ""

QueriesDisabled(p) == ~calculateStrategyEnabled(p) /\ ~generatePLCurveEnabled(p)

\* at every render a query is enabled only with a stock price and the required fields
EnabledOnlyWhenComplete ==
    (calculateStrategyEnabled(page) \/ generatePLCurveEnabled(page))
        => HasStockPrice(page) /\ page.selectedTicker # "" /\ RequiredFieldsFilled(page)

\* a step that selects a ticker leaves the date, the strikes and the premiums empty and both
\* queries disabled
TickerSelectClears ==
    (page.selectedTicker = "" /\ page'.selectedTicker # "")
        => /\ page'.expirationDate = "" /\ page'.strikePrice = "" /\ page'.premium = ""
           /\ page'.shortStrike = "" /\ page'.shortPremium = ""
           /\ page'.longStrike = "" /\ page'.longPremium = ""
           /\ QueriesDisabled(page')

\* C28: after any sequence of events on the page the calculateStrategy and generatePLCurve
\* queries are enabled only while a stock price is loaded and every field the current strategy
\* type requires is non-empty, and selecting a ticker clears the expiration date, the strikes and
\* the premiums, which disables both queries until the fields are filled again.
C28_QueriesEnabledOnlyWhenComplete == [](EnabledOnlyWhenComplete) /\ [][TickerSelectClears]_vars

\* both queries are enabled for a spread on the second ticker the user selected
C28_Witness ==
    /\ calculateStrategyEnabled(page) /\ generatePLCurveEnabled(page)
    /\ isSpread(page)
    /\ Cardinality(page.priceCache) = 2


----------------------------------------------------------------------------
(* polygonClient.ts: the singleton market-data client *)

\* process.env.POLYGON_API_KEY as a call finds it: not set, set to the empty string, or a key
PolygonEnv == {"unset", "", "key-1", "key-2"}

\* new PolygonClient({ apiKey }): an object of its own, the next one constructed in the process
PolygonClient(apiKey) == [apiKey |-> apiKey, object |-> Len(constructed) + 1]

\* !apiKey
NoApiKey(env) == env = "unset" \/ env = ""

getPolygonClient_AlwaysConstructs(caller, env) ==
    /\ IF NoApiKey(env)
       THEN /\ held' = [held EXCEPT ![caller] = [outcome |-> "throws", env |-> env, client |-> null]]
            /\ UNCHANGED <<polygonClientInstance, constructed>>
       ELSE /\ polygonClientInstance' = PolygonClient(env)
            /\ constructed' = Append(constructed, PolygonClient(env))
            /\ held' = [held EXCEPT ![caller] =
                            [outcome |-> "returns", env |-> env, client |-> PolygonClient(env)]]
    /\ UNCHANGED <<page, db, savedStrategies, nextId, requests>>
    /\ UNCHANGED engineVars

\* a call of getPolygonClient by one of its callers, with the environment as it is then
getPolygonClient(caller, env) ==
    /\ IF polygonClientInstance = null
       THEN IF NoApiKey(env)
            THEN /\ held' = [held EXCEPT ![caller] =
                                 [outcome |-> "throws", env |-> env, client |-> null]]
                 /\ UNCHANGED <<polygonClientInstance, constructed>>
            ELSE /\ polygonClientInstance' = PolygonClient(env)
                 /\ constructed' = Append(constructed, PolygonClient(env))
                 /\ held' = [held EXCEPT ![caller] =
                                 [outcome |-> "returns", env |-> env, client |-> PolygonClient(env)]]
       ELSE /\ held' = [held EXCEPT ![caller] =
                            [outcome |-> "returns", env |-> env, client |-> polygonClientInstance]]
            /\ UNCHANGED <<polygonClientInstance, constructed>>
    /\ UNCHANGED <<page, db, savedStrategies, nextId, requests>>
    /\ UNCHANGED engineVars

NextPolygon == \E caller \in PolygonCallers, env \in PolygonEnv : getPolygonClient(caller, env)

SpecPolygon == Init /\ [][NextPolygon]_vars

\* at most one client was constructed, it is the singleton, and every caller that got a client
\* got that one
OneClient ==
    /\ Len(constructed) <= 1
    /\ constructed = IF polygonClientInstance = null THEN <<>> ELSE <<polygonClientInstance>>
    /\ \A c \in PolygonCallers :
        held[c].outcome = "returns" => held[c].client = polygonClientInstance

\* the call a step makes, seen from the caller whose outcome it wrote
Called(c) == held'[c] # held[c]

\* a call that finds no instance and no key throws and leaves the singleton unset; one that
\* finds no instance and a key creates the client with that key and returns it
FirstCalls ==
    \A c \in PolygonCallers :
        (Called(c) /\ polygonClientInstance = null) =>
            IF NoApiKey(held'[c].env)
            THEN held'[c].outcome = "throws" /\ polygonClientInstance' = null
            ELSE /\ held'[c].outcome = "returns"
                 /\ polygonClientInstance' # null
                 /\ polygonClientInstance'.apiKey = held'[c].env
                 /\ held'[c].client = polygonClientInstance'

\* C29: after any sequence of getPolygonClient calls in one process at most one PolygonClient
\* has been constructed and every successful call returned that instance; a call made while
\* there is no instance and POLYGON_API_KEY is unset throws and leaves the singleton unset, and
\* a later call with the key set creates it.
C29_OneClientPerProcess == [](OneClient) /\ [][FirstCalls]_vars

\* one caller's call threw, a later one created the client, and a third got the same client
\* although the key had changed
C29_Witness ==
    \E a, b, c \in PolygonCallers :
        /\ held[a].outcome = "throws" /\ held[a].env = "unset"
        /\ held[b].outcome = "returns" /\ held[b].env = "key-1"
        /\ held[c].outcome = "returns" /\ held[c].env = "key-2"
        /\ held[b].client = held[c].client


----------------------------------------------------------------------------
(* the saved strategies: saveStrategy and deleteStrategy calls of several users, in progress *)
(* at the same time; each await is a point where another user's call may run                *)

\* the identity sequence hands out this many ids
MaxStrategies == 3

\* getDb: the instance, created at the first call that finds DATABASE_URL set
getDb(url) == IF db = "null" /\ url = "set" THEN "connected" ELSE db

\* a user with no call in progress calls a procedure; the function runs up to `await getDb()`
CallProcedure(u, call, id, url) ==
    /\ requests[u].at \in {"idle", "returned"}
    /\ db' = getDb(url)
    /\ requests' = [requests EXCEPT ![u] =
           [at |-> "getDb", call |-> call, id |-> id, db |-> getDb(url), result |-> FALSE]]
    /\ UNCHANGED <<savedStrategies, nextId>>
    /\ UNCHANGED <<page, polygonClientInstance, constructed, held>>
    /\ UNCHANGED engineVars

\* optionsRouter.ts deleteStrategy: deleteSavedStrategy(input.id, ctx.user.id)
deleteStrategy ==
    \E u \in Users, id \in 1..MaxStrategies, url \in {"set", "unset"} :
        CallProcedure(u, "deleteStrategy", id, url)

\* optionsRouter.ts saveStrategy: createSavedStrategy({ userId: ctx.user.id, ...input })
saveStrategy ==
    \E u \in Users, url \in {"set", "unset"} : CallProcedure(u, "saveStrategy", 0, url)

\* after the await: without a database the function returns (false, or null); with one it sends
\* its statement
AfterGetDb ==
    \E u \in Users :
        /\ requests[u].at = "getDb"
        /\ requests' = [requests EXCEPT ![u].at =
               IF requests[u].db = "null" THEN "returned" ELSE "statement"]
        /\ UNCHANGED <<db, savedStrategies, nextId>>
        /\ UNCHANGED <<page, polygonClientInstance, constructed, held>>
        /\ UNCHANGED engineVars

\* a DELETE removes the rows its condition selects and returns them; the function's result is
\* result.length > 0
DeleteReturning(u, returning) ==
    /\ savedStrategies' = savedStrategies \ returning
    /\ requests' = [requests EXCEPT ![u].at = "returned",
                                    ![u].result = Cardinality(returning) > 0]

deleteSavedStrategy_AnyOwner(u) ==
    /\ requests[u].at = "statement" /\ requests[u].call = "deleteStrategy"
    /\ DeleteReturning(u, {row \in savedStrategies : row.id = requests[u].id})
    /\ UNCHANGED <<db, nextId>>
    /\ UNCHANGED <<page, polygonClientInstance, constructed, held>>
    /\ UNCHANGED engineVars

\* deleteSavedStrategy: the database executes the DELETE ... RETURNING id
deleteSavedStrategy(u) ==
    /\ requests[u].at = "statement" /\ requests[u].call = "deleteStrategy"
    /\ DeleteReturning(u, {row \in savedStrategies : row.id = requests[u].id /\ row.userId = u})
    /\ UNCHANGED <<db, nextId>>
    /\ UNCHANGED <<page, polygonClientInstance, constructed, held>>
    /\ UNCHANGED engineVars

\* createSavedStrategy: the database executes the INSERT ... RETURNING id; the function then
\* reads the row back, which changes nothing
createSavedStrategy(u) ==
    /\ requests[u].at = "statement" /\ requests[u].call = "saveStrategy"
    /\ nextId <= MaxStrategies
    /\ savedStrategies' = savedStrategies \cup {[id |-> nextId, userId |-> u]}
    /\ nextId' = nextId + 1
    /\ requests' = [requests EXCEPT ![u].at = "returned", ![u].id = nextId, ![u].result = TRUE]
    /\ UNCHANGED db
    /\ UNCHANGED <<page, polygonClientInstance, constructed, held>>
    /\ UNCHANGED engineVars

NextDb ==
    \/ deleteStrategy
    \/ saveStrategy
    \/ AfterGetDb
    \/ \E u \in Users : deleteSavedStrategy(u)
    \/ \E u \in Users : createSavedStrategy(u)

SpecDb == Init /\ [][NextDb]_vars

\* user u's deleteSavedStrategy call returns in this step
DeleteReturns(u) ==
    /\ requests[u].call = "deleteStrategy"
    /\ requests[u].at # "returned" /\ requests'[u].at = "returned"

\* the rows a step removed
Removed == savedStrategies \ savedStrategies'

\* a returning delete removed the rows with its id and its user and no other, returns true
\* exactly when it removed one row, and left the table as it was when it returns false; no
\* other step of a delete call touches the table
DeleteRemovesOnlyOwn ==
    \A u \in Users :
        /\ DeleteReturns(u) =>
            /\ savedStrategies' \subseteq savedStrategies
            /\ Removed = {row \in savedStrategies : row.id = requests[u].id /\ row.userId = u}
            /\ \A row \in Removed : row.userId = u
            /\ requests'[u].result = (Cardinality(Removed) = 1)
            /\ ~requests'[u].result => savedStrategies' = savedStrategies
            /\ requests[u].db = "null" => ~requests'[u].result
        /\ (requests'[u] # requests[u] /\ requests'[u].call = "deleteStrategy" /\ ~DeleteReturns(u))
            => savedStrategies' = savedStrategies

\* C30: after any sequence of saveStrategy and deleteStrategy calls by several users,
\* deleteSavedStrategy(id, userId) removes a saved strategy only if its id matches and it belongs
\* to userId: it never removes another user's strategy, it returns true exactly when one row was
\* removed, and when it returns false, or the database is unavailable, the stored strategies
\* are unchanged.
C30_DeleteOnlyOwnStrategy == [][DeleteRemovesOnlyOwn]_vars

\* user 1 deleted a strategy of their own, and user 2's delete of another strategy of user 1
\* returned false and left it stored
C30_Witness ==
    /\ requests[1].call = "deleteStrategy" /\ requests[1].at = "returned" /\ requests[1].result
    /\ requests[2].call = "deleteStrategy" /\ requests[2].at = "returned" /\ ~requests[2].result
    /\ [id |-> requests[2].id, userId |-> 1] \in savedStrategies

====
